---- MODULE Spec2Model ----
(***************************************************************************)
(* TeamShuffle: the roster / group store (StudentService), the saved and   *)
(* editing grouping conditions (GroupingConditionsService), the handler    *)
(* chain (BlockDistribution -> SameGroup -> DifferentGroup -> GenderRatio) *)
(* and the final equal distribution.                                       *)
(*                                                                         *)
(* Student objects live in `heap`: an object's identity is its index, so   *)
(* that the roster and the groups share objects the way the TypeScript     *)
(* arrays share references (isLeader is a field of the shared object).     *)
(*                                                                         *)
(* A text input is modelled by its tokens.  A same-group / different-group *)
(* input is the sequence of its ';'-separated segments, each the sequence  *)
(* of the integers parseInt gives for its ','-separated parts (parts that  *)
(* are not numbers dropped).  A number input (roster, block) is a sequence *)
(* of parts, <<n>> for a number and <<a, b>> for a range "a-b".  The empty *)
(* string is <<>>.                                                         *)
(***************************************************************************)
EXTENDS Integers, Sequences, FiniteSets, TLC

\* ------------------------------------------------------------------ bounds
\* student ids used by the inputs: 1..MaxId
MaxId == 4
\* group counts used by the inputs: 0..MaxGroups
MaxGroups == 3
\* student objects ever created in one behaviour
MaxObjects == 3
\* students listed in one group by drag and drop
MaxGroupLen == 3
\* students of a roster under every combination of conditions
MaxRoster == 3
\* the most groups where leaders are chosen and students dragged
MaxLeaderGroups == 2
\* students of a roster given to one handler
MaxStageRoster == 5
\* the most blocks addBlock is followed to
MaxBlocks == 4
\* the largest roster given to the chain with clusters placed together
MaxChainRoster == 6
\* the most students a group holds before a cluster is placed
MaxOccupancy == 9
\* the most students of the cluster placed into groups that hold students
MaxClusterSize == 3

\* ------------------------------------------------------- program constants
maxStudentsPerGroup == 8

VARIABLES
    heap,               \* the Student objects created so far (index = identity)
    students,           \* studentsSignal: the roster, a sequence of object indices
    groups,             \* groupsSignal: group i is "group-i", a sequence of object indices
    savedConditions,    \* GroupingConditionsService.savedConditions
    editingConditions,  \* GroupingConditionsService.editingConditions
    dialogOpen,         \* the grouping-conditions dialog is open
    lastOp,             \* the operation that ran last, and how it ended
    chain               \* what the handler chain returned, when the operation
                        \* that ran last is performGrouping

vars == <<heap, students, groups, savedConditions, editingConditions, dialogOpen,
          lastOp, chain>>

\* ----------------------------------------------------------------- helpers
Range(s) == {s[i] : i \in 1..Len(s)}

Min(a, b) == IF a < b THEN a ELSE b

Max(a, b) == IF a < b THEN b ELSE a

\* Math.ceil(a / b) for a >= 0, b > 0
CeilDiv(a, b) == (a + b - 1) \div b

RECURSIVE Flatten(_)
\* [].concat(...seqs)
Flatten(seqs) ==
    IF seqs = <<>> THEN <<>> ELSE Head(seqs) \o Flatten(Tail(seqs))

RECURSIVE InsertAsc(_, _)
InsertAsc(sorted, x) ==
    IF sorted = <<>> THEN <<x>>
    ELSE IF x < Head(sorted) THEN <<x>> \o sorted
    ELSE <<Head(sorted)>> \o InsertAsc(Tail(sorted), x)

RECURSIVE SortAsc(_)
\* numbers.sort((a, b) => a - b)
SortAsc(s) ==
    IF s = <<>> THEN <<>>
    ELSE InsertAsc(SortAsc(SubSeq(s, 1, Len(s) - 1)), s[Len(s)])

RECURSIVE Dedup(_)
\* [...new Set(numbers)]: first occurrences, in order
Dedup(s) ==
    IF s = <<>> THEN <<>>
    ELSE LET front == Dedup(SubSeq(s, 1, Len(s) - 1))
             x == s[Len(s)]
         IN IF x \in Range(front) THEN front ELSE Append(front, x)

HasDuplicates(s) == \E i, j \in 1..Len(s) : i < j /\ s[i] = s[j]

\* the permutations of 1..n, as sequences
Perms(n) == {p \in [1..n -> 1..n] : \A i, j \in 1..n : p[i] = p[j] => i = j}

RECURSIVE ShuffleFrom(_, _, _)
ShuffleFrom(list, perm, k) ==
    IF k > Len(perm) THEN <<>>
    ELSE SelectSeq(list, LAMBDA o : o = perm[k]) \o ShuffleFrom(list, perm, k + 1)

\* One outcome of shuffling `list` (a sort with a random comparator, or a
\* Fisher-Yates pass): its elements in the order `perm` ranks the objects.
Shuffle(list, perm) == ShuffleFrom(list, perm, 1)

\* ----------------------------------------------------------------- objects
IdOf(o) == heap[o].id

GenderOf(o) == heap[o].gender

Ids(list) == {IdOf(list[i]) : i \in 1..Len(list)}

Males(list) == SelectSeq(list, LAMBDA o : GenderOf(o) = "male")

Females(list) == SelectSeq(list, LAMBDA o : GenderOf(o) = "female")

\* remainingStudents.find((s) => s.id === studentId): 0 when there is none
FindById(list, id) ==
    IF \E i \in 1..Len(list) : IdOf(list[i]) = id
    THEN list[CHOOSE i \in 1..Len(list) :
                 /\ IdOf(list[i]) = id
                 /\ \A j \in 1..(i - 1) : IdOf(list[j]) # id]
    ELSE 0

\* students.filter((s) => s.id !== studentId)
WithoutId(list, id) == SelectSeq(list, LAMBDA o : IdOf(o) # id)

RECURSIVE InsertById(_, _, _)
InsertById(h, sorted, o) ==
    IF sorted = <<>> THEN <<o>>
    ELSE IF h[o].id < h[Head(sorted)].id THEN <<o>> \o sorted
    ELSE <<Head(sorted)>> \o InsertById(h, Tail(sorted), o)

RECURSIVE SortByIdIn(_, _)
\* list.sort((a, b) => a.id - b.id) over the objects of heap h, a stable sort
SortByIdIn(h, list) ==
    IF list = <<>> THEN <<>>
    ELSE LET n == Len(list)
         IN InsertById(h, SortByIdIn(h, SubSeq(list, 1, n - 1)), list[n])

\* group.students.sort((a, b) => a.id - b.id)
SortById(list) == SortByIdIn(heap, list)

\* the index of the first group with the fewest students among `among`
\* (groups.reduce keeping the earlier group on a tie; a stable sort by size
\* then [0]): 0 when `among` is empty
FewestFirst(gs, among) ==
    IF among = {} THEN 0
    ELSE CHOOSE i \in among :
             \A j \in among :
                 \/ Len(gs[i]) < Len(gs[j])
                 \/ (Len(gs[i]) = Len(gs[j]) /\ i <= j)

\* targetGroup.students.push(student)
Push(gs, i, o) == [gs EXCEPT ![i] = Append(@, o)]

\* n empty groups; \o <<>> gives the function as a sequence value, which the
\* sequence operators of TLC need once the value is changed with EXCEPT
EmptyGroups(n) == [i \in 1..n |-> <<>>] \o <<>>

\* ------------------------------------------------------------ handler chain
\* GroupingResult; `thrown` stands for an exception leaving the handler, and
\* `same` records that every shuffle so far left its list in order.
Result(success, handled, gs, remaining, same) ==
    [success |-> success, handled |-> handled, groups |-> gs,
     remainingStudents |-> remaining, thrown |-> FALSE, same |-> same]

Thrown ==
    [success |-> FALSE, handled |-> FALSE, groups |-> <<>>,
     remainingStudents |-> <<>>, thrown |-> TRUE, same |-> TRUE]

\* context.conditions.find((c) => c.type === type && c.enabled): <<>> when none
FindCondition(conditions, type) ==
    LET hits == SelectSeq(conditions, LAMBDA c : c.type = type /\ c.enabled)
    IN IF hits = <<>> THEN <<>> ELSE <<hits[1]>>

RECURSIVE DistributeRemainingFrom(_, _, _, _)
DistributeRemainingFrom(gs, shuffled, k, same) ==
    IF k > Len(shuffled) THEN [groups |-> gs, thrown |-> FALSE, same |-> same]
    ELSE IF Len(gs) = 0 THEN [groups |-> gs, thrown |-> TRUE, same |-> same]
    ELSE DistributeRemainingFrom(
             Push(gs, FewestFirst(gs, 1..Len(gs)), shuffled[k]), shuffled, k + 1, same)

\* distributeRemainingStudents: each student, in shuffled order, to the first
\* group with the fewest students (reduce of an empty array throws)
DistributeRemainingStudents(gs, remaining, perm) ==
    DistributeRemainingFrom(gs, Shuffle(remaining, perm), 1,
                            Shuffle(remaining, perm) = remaining)

\* GroupingHandler.handle: a result that is not a success goes to the next handler
Handle(result, nextResult) ==
    IF ~result.thrown /\ ~result.success THEN nextResult ELSE result

\* The end of process in the three handlers that have a next handler.  `st` is
\* the handler's own placement: groups, remaining (finalRemainingStudents),
\* thrown, same.  The next handler runs when students remain; when it did not
\* handle them they are distributed here.
Conclude(st, nextResult, rest) ==
    IF st.thrown THEN Thrown
    ELSE IF st.remaining = <<>> THEN Result(TRUE, TRUE, st.groups, <<>>, st.same)
    ELSE IF nextResult.thrown THEN Thrown
    ELSE IF nextResult.handled
    THEN Result(TRUE, TRUE, nextResult.groups, nextResult.remainingStudents,
                st.same /\ nextResult.same)
    ELSE IF rest.thrown THEN Thrown
    ELSE Result(TRUE, TRUE, rest.groups, <<>>, st.same /\ rest.same)

\* the context a handler passes on: its groups and its finalRemainingStudents
NextContext(ctx, st) ==
    [ctx EXCEPT !.groups = st.groups, !.remainingStudents = st.remaining]

\* ---- GenderRatioHandler
\* the comparator of groupGenderStats.sort: a sorts before b
StatBefore(a, b, gender, idealGroupSize) ==
    LET overCapacityA == Max(0, a.total + 1 - idealGroupSize)
        overCapacityB == Max(0, b.total + 1 - idealGroupSize)
        genderDiffA == IF gender = "male" THEN a.females - a.males
                       ELSE a.males - a.females
        genderDiffB == IF gender = "male" THEN b.females - b.males
                       ELSE b.males - b.females
    IN IF overCapacityA # overCapacityB THEN overCapacityA < overCapacityB
       ELSE IF genderDiffA # genderDiffB THEN genderDiffA > genderDiffB
       ELSE a.total < b.total

RECURSIVE InsertStat(_, _, _, _)
InsertStat(sorted, x, gender, ideal) ==
    IF sorted = <<>> THEN <<x>>
    ELSE IF StatBefore(x, Head(sorted), gender, ideal) THEN <<x>> \o sorted
    ELSE <<Head(sorted)>> \o InsertStat(Tail(sorted), x, gender, ideal)

RECURSIVE SortStats(_, _, _)
\* Array.prototype.sort is stable and sorts groupGenderStats in place
SortStats(stats, gender, ideal) ==
    IF stats = <<>> THEN <<>>
    ELSE LET n == Len(stats)
         IN InsertStat(SortStats(SubSeq(stats, 1, n - 1), gender, ideal),
                       stats[n], gender, ideal)

GroupGenderStats(gs) ==
    [i \in 1..Len(gs) |->
        [index |-> i,
         males |-> Len(Males(gs[i])),
         females |-> Len(Females(gs[i])),
         total |-> Len(gs[i])]]

RECURSIVE PlaceByGender(_, _, _, _, _)
\* the loop over shuffledMales (shuffledFemales): each student to the group
\* the sorted statistics rank first
PlaceByGender(st, list, k, gender, ideal) ==
    IF k > Len(list) THEN st
    ELSE LET sorted == SortStats(st.stats, gender, ideal)
             t == sorted[1]
             bumped == IF gender = "male"
                       THEN [t EXCEPT !.males = @ + 1, !.total = @ + 1]
                       ELSE [t EXCEPT !.females = @ + 1, !.total = @ + 1]
         IN PlaceByGender(
                [stats |-> [sorted EXCEPT ![1] = bumped],
                 groups |-> Push(st.groups, t.index, list[k])],
                list, k + 1, gender, ideal)

GenderRatioProcess(ctx, perm) ==
    IF FindCondition(ctx.conditions, "gender-ratio") = <<>>
    THEN Result(FALSE, FALSE, ctx.groups, ctx.remainingStudents, TRUE)
    ELSE
    LET studentsToProcess == ctx.remainingStudents
        maleStudents == Males(studentsToProcess)
        femaleStudents == Females(studentsToProcess)
        totalGroups == Len(ctx.groups)
        shuffledMales == Shuffle(maleStudents, perm)
        shuffledFemales == Shuffle(femaleStudents, perm)
        totalStudents == Len(maleStudents) + Len(femaleStudents)
                             + Len(Flatten(ctx.groups))
        idealGroupSize == CeilDiv(totalStudents, totalGroups)
        afterMales == PlaceByGender(
                          [stats |-> GroupGenderStats(ctx.groups), groups |-> ctx.groups],
                          shuffledMales, 1, "male", idealGroupSize)
        afterFemales == PlaceByGender(afterMales, shuffledFemales, 1, "female",
                                      idealGroupSize)
    IN IF maleStudents = <<>> /\ femaleStudents = <<>>
       THEN Result(TRUE, FALSE, ctx.groups, <<>>, TRUE)
       \* no group: sort(...)[0] is undefined and reading its group throws
       ELSE IF totalGroups = 0 THEN Thrown
       ELSE Result(TRUE, TRUE, afterFemales.groups, <<>>,
                   shuffledMales = maleStudents /\ shuffledFemales = femaleStudents)

\* GroupingHandler.handle of the last handler: it has no next handler
GenderRatioHandle(ctx, perm) == GenderRatioProcess(ctx, perm)

\* ---- DifferentGroupHandler
\* parseStudentNumbers: the segment's numbers in ascending order; a number
\* that occurs twice makes it throw
ParseStudentNumbers(segment) ==
    [thrown |-> HasDuplicates(segment), numbers |-> SortAsc(segment)]

RECURSIVE ParseSegmentsDeduped(_, _)
\* a parser that removes the repeated numbers of a segment and keeps the segment
ParseSegmentsDeduped(input, k) ==
    IF k > Len(input) THEN <<>>
    ELSE (IF Len(Dedup(input[k])) >= 2
          THEN <<SortAsc(Dedup(input[k]))>> ELSE <<>>)
         \o ParseSegmentsDeduped(input, k + 1)

RECURSIVE ParseSegments(_, _)
\* the loop of parseSameGroupInput / parseDifferentGroupInput: a segment whose
\* parse throws is caught and skipped, one with fewer than 2 numbers is dropped
ParseSegments(input, k) ==
    IF k > Len(input) THEN <<>>
    ELSE LET studentNumbers == ParseStudentNumbers(input[k])
         IN (IF ~studentNumbers.thrown /\ Len(studentNumbers.numbers) >= 2
             THEN <<studentNumbers.numbers>> ELSE <<>>)
            \o ParseSegments(input, k + 1)

\* a parser without the try / catch around parseStudentNumbers
ParseUncaught(input) ==
    [thrown |-> \E k \in 1..Len(input) : ParseStudentNumbers(input[k]).thrown,
     pairs |-> ParseSegments(input, 1)]

ParseDifferentGroupInput(input) ==
    [thrown |-> FALSE, pairs |-> ParseSegments(input, 1)]

\* studentGroupMap: for the cluster's ids found in a group, the last group
\* that lists the id
StudentGroupMap(gs, studentIds) ==
    LET placed == {id \in Range(studentIds) : \E g \in 1..Len(gs) : id \in Ids(gs[g])}
    IN [id \in placed |->
           CHOOSE g \in 1..Len(gs) :
               /\ id \in Ids(gs[g])
               /\ \A h \in (g + 1)..Len(gs) : id \notin Ids(gs[h])]

\* an eviction that leaves every member of the cluster in the conflict group
KeepInConflictGroup(st, conflict, ids, k) == st

RECURSIVE EvictFrom(_, _, _, _)
\* the members after the first leave the conflict group for the remaining pool
EvictFrom(st, conflict, ids, k) ==
    IF k > Len(ids) THEN st
    ELSE LET studentObj == FindById(st.groups[conflict], ids[k])
         IN EvictFrom(
                IF studentObj = 0 THEN st
                ELSE [st EXCEPT
                         !.groups[conflict] = WithoutId(@, ids[k]),
                         !.remaining = Append(@, studentObj)],
                conflict, ids, k + 1)

RECURSIVE RedistributeStudents(_, _, _, _)
\* each evicted student to the first group with the fewest students among the
\* groups other than the conflict group; to no group when there is no other
RedistributeStudents(st, studentIds, avoidGroupIndex, k) ==
    IF k > Len(studentIds) THEN st
    ELSE LET student == FindById(st.remaining, studentIds[k])
             available == (1..Len(st.groups)) \ {avoidGroupIndex}
         IN RedistributeStudents(
                IF student = 0 \/ available = {} THEN st
                ELSE [st EXCEPT !.groups = Push(@, FewestFirst(@, available), student)],
                studentIds, avoidGroupIndex, k + 1)

RECURSIVE AssignUnplaced(_, _, _, _, _)
\* the last loop of assignToDifferentGroups: the cluster's students that were
\* in no group, each to a group this cluster has not used yet
AssignUnplaced(st, studentIds, map, usedGroups, k) ==
    IF k > Len(studentIds) \/ st.thrown THEN st
    ELSE LET studentId == studentIds[k]
             student == FindById(st.remaining, studentId)
             available == (1..Len(st.groups)) \ usedGroups
             target == IF available # {} THEN FewestFirst(st.groups, available)
                       ELSE FewestFirst(st.groups, 1..Len(st.groups))
         IN IF studentId \in DOMAIN map
            THEN AssignUnplaced([st EXCEPT !.processed = @ \cup {studentId}],
                                studentIds, map, usedGroups, k + 1)
            ELSE IF student = 0
            THEN AssignUnplaced(st, studentIds, map, usedGroups, k + 1)
            \* no group at all: groups.reduce of an empty array throws
            ELSE IF Len(st.groups) = 0 THEN [st EXCEPT !.thrown = TRUE]
            ELSE AssignUnplaced(
                     [st EXCEPT !.groups = Push(@, target, student),
                                !.processed = @ \cup {studentId}],
                     studentIds, map,
                     IF available # {} THEN usedGroups \cup {target} ELSE usedGroups,
                     k + 1)

AssignToDifferentGroups(st, studentIds) ==
    LET map == StudentGroupMap(st.groups, studentIds)
        groupsWithStudents == {map[id] : id \in DOMAIN map}
        conflictGroupIndex == CHOOSE g \in groupsWithStudents : TRUE
        studentsInConflictGroup ==
            SelectSeq(studentIds,
                      LAMBDA id : id \in DOMAIN map /\ map[id] = conflictGroupIndex)
        studentsToReassign == Tail(studentsInConflictGroup)
        evicted == EvictFrom(st, conflictGroupIndex, studentsInConflictGroup, 2)
        reassigned == RedistributeStudents(evicted, studentsToReassign,
                                           conflictGroupIndex, 1)
        checked ==
            IF Cardinality(groupsWithStudents) > 1
            THEN [st EXCEPT !.processed = @ \cup DOMAIN map]
            ELSE IF Cardinality(groupsWithStudents) = 1
            THEN [reassigned EXCEPT !.processed = @ \cup Range(studentIds)]
            ELSE st
    IN AssignUnplaced(checked, studentIds, map, groupsWithStudents, 1)

RECURSIVE AssignPairs(_, _, _)
AssignPairs(st, pairs, k) ==
    IF k > Len(pairs) \/ st.thrown THEN st
    ELSE AssignPairs(AssignToDifferentGroups(st, pairs[k]), pairs, k + 1)

\* the handler's own placement: the clusters assigned, the processed students
\* taken out of the remaining pool
DifferentGroupPlace(ctx, pairs) ==
    LET st == AssignPairs([groups |-> ctx.groups, remaining |-> ctx.remainingStudents,
                           processed |-> {}, thrown |-> FALSE],
                          pairs, 1)
    IN [groups |-> st.groups,
        remaining |-> SelectSeq(st.remaining, LAMBDA o : IdOf(o) \notin st.processed),
        thrown |-> st.thrown,
        same |-> TRUE]

DifferentGroupForward(ctx, st, perm) ==
    Conclude(st, GenderRatioHandle(NextContext(ctx, st), perm),
             DistributeRemainingStudents(st.groups, st.remaining, perm))

DifferentGroupProcess(ctx, perm) ==
    LET condition == FindCondition(ctx.conditions, "different-group")
        parsed == ParseDifferentGroupInput(condition[1].input)
    IN IF condition = <<>>
       THEN Result(FALSE, FALSE, ctx.groups, ctx.remainingStudents, TRUE)
       ELSE IF parsed.thrown THEN Thrown
       ELSE IF parsed.pairs = <<>>
       THEN Result(TRUE, FALSE, ctx.groups, ctx.remainingStudents, TRUE)
       ELSE DifferentGroupForward(ctx, DifferentGroupPlace(ctx, parsed.pairs), perm)

DifferentGroupHandle(ctx, perm) ==
    Handle(DifferentGroupProcess(ctx, perm), GenderRatioHandle(ctx, perm))

\* ---- SameGroupHandler
ParseSameGroupInput(input) ==
    [thrown |-> FALSE, pairs |-> ParseSegments(input, 1)]

CanFitInGroup(group, requiredCapacity) ==
    Len(group) + requiredCapacity <= maxStudentsPerGroup

\* a choice that takes the first group the cluster fits in under the cap,
\* whatever its size, and the group with the fewest students when it fits in none
FindFirstFit(gs, requiredCapacity) ==
    LET availableGroups == {i \in 1..Len(gs) : CanFitInGroup(gs[i], requiredCapacity)}
    IN IF availableGroups # {}
       THEN CHOOSE i \in availableGroups : \A j \in availableGroups : i <= j
       ELSE FewestFirst(gs, 1..Len(gs))

\* findAvailableGroup: the first group with the fewest students among those the
\* cluster fits in, or among all groups when it fits in none
FindAvailableGroup(gs, requiredCapacity) ==
    LET availableGroups == {i \in 1..Len(gs) : CanFitInGroup(gs[i], requiredCapacity)}
    IN IF availableGroups # {} THEN FewestFirst(gs, availableGroups)
       ELSE FewestFirst(gs, 1..Len(gs))

RECURSIVE PushEachToFewest(_, _, _, _, _)
\* a placement that gives each student of the cluster the group with the
\* fewest students at that moment, so that the cluster is spread
PushEachToFewest(gs, target, remaining, ids, k) ==
    IF k > Len(ids) THEN gs
    ELSE PushEachToFewest(
             Push(gs, FewestFirst(gs, 1..Len(gs)), FindById(remaining, ids[k])),
             target, remaining, ids, k + 1)

RECURSIVE PushAll(_, _, _, _, _)
PushAll(gs, target, remaining, ids, k) ==
    IF k > Len(ids) THEN gs
    ELSE PushAll(Push(gs, target, FindById(remaining, ids[k])), target, remaining,
                 ids, k + 1)

RECURSIVE PlacePairs(_, _, _, _)
\* the loop over sameGroupPairs: the cluster's students still in the remaining
\* pool go to one group
PlacePairs(st, remaining, pairs, k) ==
    IF k > Len(pairs) \/ st.thrown THEN st
    ELSE LET availableStudents ==
                 SelectSeq(pairs[k],
                           LAMBDA id : id \in Ids(remaining) /\ id \notin st.processed)
             target == FindAvailableGroup(st.groups, Len(availableStudents))
         IN IF availableStudents = <<>> THEN PlacePairs(st, remaining, pairs, k + 1)
            \* no group at all: groups.reduce of an empty array throws
            ELSE IF Len(st.groups) = 0 THEN [st EXCEPT !.thrown = TRUE]
            ELSE PlacePairs(
                     [st EXCEPT
                         !.groups = PushAll(@, target, remaining, availableStudents, 1),
                         !.processed = @ \cup Range(availableStudents)],
                     remaining, pairs, k + 1)

SameGroupPlace(ctx, pairs) ==
    LET st == PlacePairs([groups |-> ctx.groups, processed |-> {}, thrown |-> FALSE],
                         ctx.remainingStudents, pairs, 1)
    IN [groups |-> st.groups,
        remaining |-> SelectSeq(ctx.remainingStudents,
                                LAMBDA o : IdOf(o) \notin st.processed),
        thrown |-> st.thrown,
        same |-> TRUE]

SameGroupForward(ctx, st, perm) ==
    Conclude(st, DifferentGroupHandle(NextContext(ctx, st), perm),
             DistributeRemainingStudents(st.groups, st.remaining, perm))

SameGroupProcess(ctx, perm) ==
    LET condition == FindCondition(ctx.conditions, "same-group")
        parsed == ParseSameGroupInput(condition[1].input)
    IN IF condition = <<>>
       THEN Result(FALSE, FALSE, ctx.groups, ctx.remainingStudents, TRUE)
       ELSE IF parsed.thrown THEN Thrown
       ELSE IF parsed.pairs = <<>>
       THEN Result(TRUE, FALSE, ctx.groups, ctx.remainingStudents, TRUE)
       ELSE SameGroupForward(ctx, SameGroupPlace(ctx, parsed.pairs), perm)

SameGroupHandle(ctx, perm) ==
    Handle(SameGroupProcess(ctx, perm), DifferentGroupHandle(ctx, perm))

\* ---- BlockDistributionHandler
RECURSIVE ExpandParts(_, _)
\* the numbers of a number input: <<n>> is n, <<a, b>> is the range a-b,
\* expanded from the smaller end to the larger
ExpandParts(parts, k) ==
    IF k > Len(parts) THEN <<>>
    ELSE LET part == parts[k]
             lo == Min(part[1], part[Len(part)])
             hi == Max(part[1], part[Len(part)])
         IN [i \in 1..(hi - lo + 1) |-> lo + i - 1] \o ExpandParts(parts, k + 1)

\* parseBlockInput (and StudentService.parseNumberInput): deduplicated, ascending
ParseBlockInput(input) == SortAsc(Dedup(ExpandParts(input, 1)))

RECURSIVE ParseBlocks(_, _)
\* the blocks of blockInputs: a blank input, or one with no number, gives none
ParseBlocks(blockInputs, k) ==
    IF k > Len(blockInputs) THEN <<>>
    ELSE (IF blockInputs[k] # <<>> /\ ParseBlockInput(blockInputs[k]) # <<>>
          THEN <<ParseBlockInput(blockInputs[k])>> ELSE <<>>)
         \o ParseBlocks(blockInputs, k + 1)

\* blockStudentMap.get(id): the last block that lists the id, 0 when none does
BlockIndexOf(blocks, id) ==
    IF \E b \in 1..Len(blocks) : id \in Range(blocks[b])
    THEN CHOOSE b \in 1..Len(blocks) :
             /\ id \in Range(blocks[b])
             /\ \A c \in (b + 1)..Len(blocks) : id \notin Range(blocks[c])
    ELSE 0

RECURSIVE DealBlock(_, _, _)
\* one block's shuffled students, each to the group under the running pointer
DealBlock(st, shuffledStudents, k) ==
    IF k > Len(shuffledStudents) \/ st.thrown THEN st
    \* no group: groups[currentGroupIndex] is undefined and reading it throws
    ELSE IF Len(st.groups) = 0 THEN [st EXCEPT !.thrown = TRUE]
    ELSE DealBlock(
             [st EXCEPT
                 !.groups = Push(@, st.currentGroupIndex + 1, shuffledStudents[k]),
                 !.currentGroupIndex = (@ + 1) % Len(st.groups)],
             shuffledStudents, k + 1)

RECURSIVE DealBlocksFromZero(_, _, _, _)
\* a loop over the blocks that starts every block at the first group
DealBlocksFromZero(st, blockGroups, perm, blockIndex) ==
    IF blockIndex > Len(blockGroups) \/ st.thrown THEN st
    ELSE LET shuffledStudents == Shuffle(blockGroups[blockIndex], perm)
         IN DealBlocksFromZero(
                [DealBlock([st EXCEPT !.currentGroupIndex = 0], shuffledStudents, 1)
                    EXCEPT !.same = @ /\ shuffledStudents = blockGroups[blockIndex]],
                blockGroups, perm, blockIndex + 1)

RECURSIVE DealBlocks(_, _, _, _)
DealBlocks(st, blockGroups, perm, blockIndex) ==
    IF blockIndex > Len(blockGroups) \/ st.thrown THEN st
    ELSE LET shuffledStudents == Shuffle(blockGroups[blockIndex], perm)
         IN DealBlocks(
                [DealBlock(st, shuffledStudents, 1) EXCEPT
                    !.same = @ /\ shuffledStudents = blockGroups[blockIndex]],
                blockGroups, perm, blockIndex + 1)

\* distributeBlockStudents: currentGroupIndex starts at 0 once and runs on
\* from block to block
DistributeBlockStudents(gs, blocks, remainingStudents, perm) ==
    LET blockGroups ==
            [b \in 1..Len(blocks) |->
                SelectSeq(remainingStudents,
                          LAMBDA o : BlockIndexOf(blocks, IdOf(o)) = b)]
        dealt == DealBlocks([groups |-> gs, currentGroupIndex |-> 0,
                             thrown |-> FALSE, same |-> TRUE],
                            blockGroups, perm, 1)
    IN [groups |-> dealt.groups,
        processed |-> {IdOf(remainingStudents[i]) : i \in
                          {j \in 1..Len(remainingStudents) :
                              BlockIndexOf(blocks, IdOf(remainingStudents[j])) # 0}},
        thrown |-> dealt.thrown,
        same |-> dealt.same]

BlockDistributionPlace(ctx, blocks, perm) ==
    LET st == DistributeBlockStudents(ctx.groups, blocks, ctx.remainingStudents, perm)
    IN [groups |-> st.groups,
        remaining |-> SelectSeq(ctx.remainingStudents,
                                LAMBDA o : IdOf(o) \notin st.processed),
        thrown |-> st.thrown,
        same |-> st.same]

BlockDistributionForward(ctx, st, perm) ==
    Conclude(st, SameGroupHandle(NextContext(ctx, st), perm),
             DistributeRemainingStudents(st.groups, st.remaining, perm))

BlockDistributionProcess(ctx, perm) ==
    LET condition == FindCondition(ctx.conditions, "block-distribution")
        blocks == IF "blockInputs" \in DOMAIN condition[1]
                  THEN ParseBlocks(condition[1].blockInputs, 1) ELSE <<>>
    IN IF condition = <<>>
       THEN Result(FALSE, FALSE, ctx.groups, ctx.remainingStudents, TRUE)
       ELSE IF blocks = <<>>
       THEN Result(TRUE, FALSE, ctx.groups, ctx.remainingStudents, TRUE)
       ELSE BlockDistributionForward(ctx, BlockDistributionPlace(ctx, blocks, perm), perm)

BlockDistributionHandle(ctx, perm) ==
    Handle(BlockDistributionProcess(ctx, perm), SameGroupHandle(ctx, perm))

\* ---- StudentService.forceEqualDistribution
\* a faulty variant of targetSizes: baseSize for every group, the extra
\* students forgotten
TargetSizeFloor(totalStudents, groupCount, i) == totalStudents \div groupCount

\* targetSizes: baseSize + (index < extra ? 1 : 0), for the 1-based index i
TargetSize(totalStudents, groupCount, i) ==
    (totalStudents \div groupCount) + (IF i - 1 < totalStudents % groupCount THEN 1 ELSE 0)

RECURSIVE DealMalesBackwards(_, _, _, _)
\* a faulty variant of the second step: the round-robin runs from group 0
\* towards the last group
DealMalesBackwards(gs, maleStudents, maleIndex, currentGroupIndex) ==
    IF maleIndex >= Len(maleStudents) THEN gs
    ELSE DealMalesBackwards(
             Push(gs, currentGroupIndex + 1, maleStudents[maleIndex + 1]),
             maleStudents, maleIndex + 1,
             (currentGroupIndex + Len(gs) - 1) % Len(gs))

RECURSIVE DealMalesToFirstGroup(_, _, _, _)
\* a second step that gives every male left after the first round to the
\* first group
DealMalesToFirstGroup(gs, maleStudents, maleIndex, currentGroupIndex) ==
    IF maleIndex >= Len(maleStudents) THEN gs
    ELSE DealMalesToFirstGroup(Push(gs, 1, maleStudents[maleIndex + 1]),
                               maleStudents, maleIndex + 1, currentGroupIndex)

RECURSIVE DealMales(_, _, _, _)
\* second step: the males left after the first round, round-robin from group 0
DealMales(gs, maleStudents, maleIndex, currentGroupIndex) ==
    IF maleIndex >= Len(maleStudents) THEN gs
    ELSE DealMales(Push(gs, currentGroupIndex + 1, maleStudents[maleIndex + 1]),
                   maleStudents, maleIndex + 1, (currentGroupIndex + 1) % Len(gs))

RECURSIVE DealFemalesNoSkip(_, _, _)
\* a faulty variant of the third step: a group at its target size is not
\* skipped
DealFemalesNoSkip(st, femaleStudents, totalStudents) ==
    IF st.femaleIndex >= Len(femaleStudents) THEN st
    ELSE DealFemalesNoSkip(
             [groups |-> Push(st.groups, st.currentGroupIndex + 1,
                              femaleStudents[st.femaleIndex + 1]),
              femaleIndex |-> st.femaleIndex + 1,
              currentGroupIndex |-> (st.currentGroupIndex + 1) % Len(st.groups)],
             femaleStudents, totalStudents)

RECURSIVE DealFemales(_, _, _)
\* third step: the females round-robin from group 0, a group at its target
\* size skipped; the loop ends when every group is at its target size
DealFemales(st, femaleStudents, totalStudents) ==
    IF st.femaleIndex >= Len(femaleStudents) THEN st
    ELSE LET g == st.currentGroupIndex + 1
             groupCount == Len(st.groups)
             room == Len(st.groups[g]) < TargetSize(totalStudents, groupCount, g)
             next == [groups |-> IF room
                                 THEN Push(st.groups, g, femaleStudents[st.femaleIndex + 1])
                                 ELSE st.groups,
                      femaleIndex |-> IF room THEN st.femaleIndex + 1 ELSE st.femaleIndex,
                      currentGroupIndex |-> (st.currentGroupIndex + 1) % groupCount]
             allGroupsFull ==
                 \A i \in 1..groupCount :
                     Len(next.groups[i]) >= TargetSize(totalStudents, groupCount, i)
         IN IF allGroupsFull THEN next ELSE DealFemales(next, femaleStudents, totalStudents)

RECURSIVE FillGroup(_, _, _, _, _)
\* the final check: a group below its target size takes the students not yet
\* dealt, males first
FillGroup(st, g, maleStudents, femaleStudents, totalStudents) ==
    IF /\ Len(st.groups[g]) < TargetSize(totalStudents, Len(st.groups), g)
       /\ (st.maleIndex < Len(maleStudents) \/ st.femaleIndex < Len(femaleStudents))
    THEN FillGroup(
             IF st.maleIndex < Len(maleStudents)
             THEN [st EXCEPT !.groups = Push(@, g, maleStudents[st.maleIndex + 1]),
                             !.maleIndex = @ + 1]
             ELSE [st EXCEPT !.groups = Push(@, g, femaleStudents[st.femaleIndex + 1]),
                             !.femaleIndex = @ + 1],
             g, maleStudents, femaleStudents, totalStudents)
    ELSE st

RECURSIVE FillGroups(_, _, _, _, _)
FillGroups(st, g, maleStudents, femaleStudents, totalStudents) ==
    IF g > Len(st.groups) THEN st
    ELSE LET filled == FillGroup(st, g, maleStudents, femaleStudents, totalStudents)
         IN FillGroups([filled EXCEPT !.groups[g] = SortById(@)], g + 1,
                       maleStudents, femaleStudents, totalStudents)

\* studentsToDistribute: the students the chain placed, group by group, then
\* the roster students whose id is in no group
StudentsToDistribute(gs, allStudents) ==
    LET assignedStudents == Flatten(gs)
    IN assignedStudents
           \o SelectSeq(allStudents, LAMBDA o : IdOf(o) \notin Ids(assignedStudents))

\* the sort of every group, and the final check when students are left over
SortAndFill(dealt, maleStudents, femaleStudents) ==
    LET sorted == [i \in 1..Len(dealt.groups) |-> SortById(dealt.groups[i])] \o <<>>
    IN IF dealt.femaleIndex < Len(femaleStudents)
       THEN FillGroups([groups |-> sorted, maleIndex |-> Len(maleStudents),
                        femaleIndex |-> dealt.femaleIndex],
                       1, maleStudents, femaleStudents,
                       Len(maleStudents) + Len(femaleStudents)).groups
       ELSE sorted

\* the three dealing steps over the shuffled pools, for groupCount >= 1
DealStudents(groupCount, maleStudents, femaleStudents) ==
    LET firstRound == IF Len(maleStudents) >= groupCount
                      THEN [i \in 1..groupCount |-> <<maleStudents[i]>>] \o <<>>
                      ELSE EmptyGroups(groupCount)
        maleIndex == IF Len(maleStudents) >= groupCount THEN groupCount ELSE 0
    IN SortAndFill(
           DealFemales([groups |-> DealMales(firstRound, maleStudents, maleIndex, 0),
                        femaleIndex |-> 0, currentGroupIndex |-> 0],
                       femaleStudents, Len(maleStudents) + Len(femaleStudents)),
           maleStudents, femaleStudents)

\* a faulty variant of forceEqualDistribution: the groups are left as the
\* chain produced them
KeepChainGroups(gs, allStudents, perm) ==
    [groups |-> gs, thrown |-> FALSE, same |-> TRUE]

\* forceEqualDistribution(groups, allStudents): what it leaves in `groups`
ForceEqualDistribution(gs, allStudents, perm) ==
    LET pool == StudentsToDistribute(gs, allStudents)
    IN \* no group: groups[currentGroupIndex] is undefined, and dealing the first
       \* student to it throws
       IF Len(gs) = 0
       THEN [groups |-> <<>>, thrown |-> pool # <<>>, same |-> TRUE]
       ELSE [groups |-> DealStudents(Len(gs), Shuffle(Males(pool), perm),
                                     Shuffle(Females(pool), perm)),
             thrown |-> FALSE,
             same |-> /\ Shuffle(Males(pool), perm) = Males(pool)
                      /\ Shuffle(Females(pool), perm) = Females(pool)]

\* ---- GroupingConditionsService: the condition records
\* the merged input of the block condition: the non-blank block inputs joined
JoinBlocks(blockInputs) ==
    Flatten(SelectSeq(blockInputs, LAMBDA block : block # <<>>))

Condition(type, enabled, input) ==
    [id |-> type, type |-> type, enabled |-> enabled, input |-> input]

BlockCondition(enabled, blockInputs) ==
    [id |-> "block-distribution", type |-> "block-distribution", enabled |-> enabled,
     input |-> JoinBlocks(blockInputs), blockInputs |-> blockInputs]

\* the conditions the service is constructed with, and resetConditions restores
DefaultConditions ==
    <<BlockCondition(FALSE, <<<<>>, <<>>, <<>>>>),
      Condition("same-group", FALSE, <<>>),
      Condition("different-group", FALSE, <<>>),
      Condition("gender-ratio", FALSE, <<>>)>>

\* ---- StudentService: the roster
\* parseNumberInput: the numbers of the ','-separated parts, ranges expanded,
\* deduplicated, ascending
ParseNumberInput(input) == SortAsc(Dedup(ExpandParts(input, 1)))

\* the Student objects numbers.map((id) => ({id, gender, isLeader: false})) creates
NewStudents(numbers, gender) ==
    [i \in 1..Len(numbers) |-> [id |-> numbers[i], gender |-> gender, isLeader |-> FALSE]]

\* initializeStudents: heap and roster after it.  It is followed by
\* initializeGroups, so no object created before it is referenced any more:
\* the heap is the new objects alone
InitializeStudents(maleInput, femaleInput) ==
    LET created == NewStudents(ParseNumberInput(maleInput), "male")
                       \o NewStudents(ParseNumberInput(femaleInput), "female")
    IN [heap |-> created,
        students |-> SortByIdIn(created, [i \in 1..Len(created) |-> i])]

\* initializeGroups: groupCount empty groups, none for a count below 1
InitializeGroups(groupCount) == EmptyGroups(Max(groupCount, 0))

Outcome(op, outcome) == [op |-> op, outcome |-> outcome]

NoChain == [ran |-> FALSE, handled |-> FALSE, thrown |-> FALSE, groups |-> <<>>,
            same |-> TRUE]

RemoveStudent(studentId) ==
    /\ students' = WithoutId(students, studentId)
    /\ lastOp' = Outcome("removeStudent", "ok")
    /\ chain' = NoChain
    /\ UNCHANGED <<heap, groups, savedConditions, editingConditions, dialogOpen>>

\* addStudents that adds the new numbers before it reports the duplicates
AddStudentsThenCheck(input, gender) ==
    LET newNumbers == SelectSeq(ParseNumberInput(input), LAMBDA id : id \notin Ids(students))
        duplicates == SelectSeq(ParseNumberInput(input), LAMBDA id : id \in Ids(students))
        h == heap \o NewStudents(newNumbers, gender)
    IN /\ Len(h) <= MaxObjects
       /\ heap' = h
       /\ students' = SortByIdIn(h, students \o
                          [i \in 1..Len(newNumbers) |-> Len(heap) + i])
       /\ lastOp' = Outcome("addStudents", IF duplicates # <<>> THEN "error" ELSE "ok")
       /\ chain' = NoChain
       /\ UNCHANGED <<groups, savedConditions, editingConditions, dialogOpen>>

AddStudents(input, gender) ==
    LET newNumbers == ParseNumberInput(input)
        duplicates == SelectSeq(newNumbers, LAMBDA id : id \in Ids(students))
        h == heap \o NewStudents(newNumbers, gender)
    IN /\ IF duplicates # <<>>
          THEN /\ lastOp' = Outcome("addStudents", "error")
               /\ UNCHANGED <<heap, students>>
          ELSE /\ Len(h) <= MaxObjects
               /\ heap' = h
               /\ students' = SortByIdIn(h, students \o
                                  [i \in 1..Len(newNumbers) |-> Len(heap) + i])
               /\ lastOp' = Outcome("addStudents", "ok")
       /\ chain' = NoChain
       /\ UNCHANGED <<groups, savedConditions, editingConditions, dialogOpen>>

SetAbsentStudents(input) ==
    LET absentIds == ParseNumberInput(input)
    IN /\ students' = SelectSeq(students, LAMBDA o : IdOf(o) \notin Range(absentIds))
       /\ lastOp' = Outcome("setAbsentStudents", "ok")
       /\ chain' = NoChain
       /\ UNCHANGED <<heap, groups, savedConditions, editingConditions, dialogOpen>>

\* initializeStudents called on its own, with groups that hold no student: the
\* roster is replaced by the new objects, the groups are not touched
InitializeStudentsCall(maleInput, femaleInput) ==
    LET created == InitializeStudents(maleInput, femaleInput)
    IN /\ \A g \in 1..Len(groups) : groups[g] = <<>>
       /\ Len(created.heap) <= MaxObjects
       /\ heap' = created.heap
       /\ students' = created.students
       /\ lastOp' = Outcome("initializeStudents", "ok")
       /\ chain' = NoChain
       /\ UNCHANGED <<groups, savedConditions, editingConditions, dialogOpen>>

\* ---- StudentService.performGrouping
\* the outcomes of a shuffle: the orders in which the roster's objects can rank
PermsOf(list) == {[i \in 1..Len(list) |-> list[p[i]]] : p \in Perms(Len(list))}

\* the outcomes of the two shuffles of forceEqualDistribution: the males among
\* themselves and the females among themselves
EqualizerPerms ==
    {m \o f : m \in PermsOf(Males(students)), f \in PermsOf(Females(students))}

\* getEnabledConditions
GetEnabledConditions == SelectSeq(savedConditions, LAMBDA c : c.enabled)

\* the end of performGrouping: the dealt groups are stored; an exception
\* leaves the stored groups as they were
StoreGroups(result, dealt) ==
    /\ chain' = [ran |-> TRUE, handled |-> result.handled, thrown |-> FALSE,
                 groups |-> result.groups,
                 same |-> result.same /\ (dealt.thrown \/ dealt.same)]
    /\ IF dealt.thrown
       THEN /\ lastOp' = Outcome("performGrouping", "error")
            /\ UNCHANGED groups
       ELSE /\ lastOp' = Outcome("performGrouping", "ok")
            /\ groups' = dealt.groups

\* performGrouping after the chain returned `result`: finalGroups are the
\* chain's groups when it handled the students, empty groups otherwise, and
\* forceEqualDistribution runs on them in both cases
AfterChain(result) ==
    IF result.thrown
    THEN /\ chain' = [NoChain EXCEPT !.ran = TRUE, !.thrown = TRUE]
         /\ lastOp' = Outcome("performGrouping", "error")
         /\ UNCHANGED groups
    ELSE \E equalizerPerm \in EqualizerPerms :
            StoreGroups(result,
                        ForceEqualDistribution(
                            IF result.handled THEN result.groups
                            ELSE EmptyGroups(Len(groups)),
                            students, equalizerPerm))

PerformGrouping ==
    /\ \E perm \in PermsOf(students) :
           AfterChain(BlockDistributionHandle(
                          [conditions |-> GetEnabledConditions,
                           groups |-> EmptyGroups(Len(groups)),
                           remainingStudents |-> students],
                          perm))
    \* students.forEach((s) => (s.isLeader = false)), before the chain runs
    /\ heap' = [o \in 1..Len(heap) |->
                   IF o \in Range(students)
                   THEN [heap[o] EXCEPT !.isLeader = FALSE] ELSE heap[o]]
    /\ UNCHANGED <<students, savedConditions, editingConditions, dialogOpen>>

\* ---- one handler of the chain, invoked as performGrouping invokes the first
\* the context performGrouping builds: the enabled conditions, empty groups,
\* the whole roster remaining
StageContext ==
    [conditions |-> GetEnabledConditions,
     groups |-> EmptyGroups(Len(groups)),
     remainingStudents |-> students]

\* handle(context) has returned `result` (or thrown): the GroupingResult is
\* kept in chain, the handler and the shuffle it drew in lastOp
HandlerReturned(handler, perm, result) ==
    /\ chain' = [ran |-> TRUE, handled |-> result.handled, thrown |-> result.thrown,
                 groups |-> result.groups, same |-> result.same,
                 success |-> result.success,
                 remainingStudents |-> result.remainingStudents]
    /\ lastOp' = [op |-> handler, outcome |-> IF result.thrown THEN "error" ELSE "ok",
                  perm |-> perm]
    /\ UNCHANGED <<heap, students, groups, savedConditions, editingConditions, dialogOpen>>

\* a context is given to one handler, once: no handler has run yet
BlockDistributionStage ==
    /\ ~chain.ran
    /\ \E perm \in PermsOf(students) :
           HandlerReturned("BlockDistributionHandler", perm,
                           BlockDistributionHandle(StageContext, perm))

SameGroupStage ==
    /\ ~chain.ran
    /\ \E perm \in PermsOf(students) :
           HandlerReturned("SameGroupHandler", perm, SameGroupHandle(StageContext, perm))

DifferentGroupStage ==
    /\ ~chain.ran
    /\ \E perm \in PermsOf(students) :
           HandlerReturned("DifferentGroupHandler", perm,
                           DifferentGroupHandle(StageContext, perm))

\* SameGroupHandler given groups that hold students already: the context's
\* groups are `groups`, its remaining students those of the roster in no group
OccupiedContext ==
    [conditions |-> GetEnabledConditions,
     groups |-> groups,
     remainingStudents |-> SelectSeq(students,
                                     LAMBDA o : \A g \in 1..Len(groups) :
                                                    o \notin Range(groups[g]))]

SameGroupOnOccupiedGroups ==
    /\ ~chain.ran
    /\ HandlerReturned("SameGroupHandler.process", students,
                       SameGroupHandle(OccupiedContext, students))

\* a group left in the order it had (the sort left out)
LeaveUnsorted(h, list) == list

\* ---- StudentService: leaders and drag and drop
\* the comparator of the leader sort: a sorts before b
LeaderBefore(h, a, b) ==
    IF h[a].isLeader /\ ~h[b].isLeader THEN TRUE
    ELSE IF ~h[a].isLeader /\ h[b].isLeader THEN FALSE
    ELSE h[a].id < h[b].id

RECURSIVE InsertLeaderFirst(_, _, _)
InsertLeaderFirst(h, sorted, o) ==
    IF sorted = <<>> THEN <<o>>
    ELSE IF LeaderBefore(h, o, Head(sorted)) THEN <<o>> \o sorted
    ELSE <<Head(sorted)>> \o InsertLeaderFirst(h, Tail(sorted), o)

RECURSIVE SortLeaderFirst(_, _)
\* group.students.sort(leader first, then by id), a stable sort
SortLeaderFirst(h, list) ==
    IF list = <<>> THEN <<>>
    ELSE LET n == Len(list)
         IN InsertLeaderFirst(h, SortLeaderFirst(h, SubSeq(list, 1, n - 1)), list[n])

RECURSIVE ToggleEach(_, _, _, _)
\* group.students.forEach: the student with the id is flipped, every other
\* student of the group loses the flag (an object listed twice is visited twice)
ToggleEach(h, list, studentId, k) ==
    IF k > Len(list) THEN h
    ELSE ToggleEach([h EXCEPT ![list[k]].isLeader =
                        IF h[list[k]].id = studentId THEN ~@ ELSE FALSE],
                    list, studentId, k + 1)

\* toggleLeader(groupId, studentId); group g is "group-g", found when it exists
ToggleLeader(g, studentId) ==
    /\ IF g \in 1..Len(groups)
       THEN /\ heap' = ToggleEach(heap, groups[g], studentId, 1)
            /\ groups' = [groups EXCEPT ![g] = SortLeaderFirst(heap', @)]
       ELSE UNCHANGED <<heap, groups>>
    /\ lastOp' = Outcome("toggleLeader", "ok")
    /\ chain' = NoChain
    /\ UNCHANGED <<students, savedConditions, editingConditions, dialogOpen>>

\* one group of selectRandomLeaders: all flags reset, the student at
\* randomIndex made leader, the group sorted
SelectLeader(st, g, randomIndex) ==
    LET list == st.groups[g]
        reset == [o \in 1..Len(st.heap) |->
                     IF o \in Range(list) THEN [st.heap[o] EXCEPT !.isLeader = FALSE]
                     ELSE st.heap[o]] \o <<>>
        chosen == [reset EXCEPT ![list[randomIndex]].isLeader = TRUE]
    IN IF list = <<>> THEN st
       ELSE [heap |-> chosen,
             groups |-> [st.groups EXCEPT ![g] = SortLeaderFirst(chosen, list)]]

RECURSIVE SelectLeaders(_, _, _)
SelectLeaders(st, pick, g) ==
    IF g > Len(st.groups) THEN st
    ELSE SelectLeaders(SelectLeader(st, g, pick[g]), pick, g + 1)

\* selectRandomLeaders: pick[g] is the random index drawn for group g
SelectRandomLeaders ==
    \E pick \in [1..Len(groups) -> 1..MaxGroupLen] :
        /\ \A g \in 1..Len(groups) : pick[g] <= Max(1, Len(groups[g]))
        /\ LET st == SelectLeaders([heap |-> heap, groups |-> groups], pick, 1)
           IN /\ heap' = st.heap
              /\ groups' = st.groups
        /\ lastOp' = Outcome("selectRandomLeaders", "ok")
        /\ chain' = NoChain
        /\ UNCHANGED <<students, savedConditions, editingConditions, dialogOpen>>

\* moveStudentToGroup(studentId, fromGroupId, toGroupId): 0 is "available",
\* g is "group-g"; a group id that names no group is not found
MoveStudentToGroup(studentId, from, to) ==
    LET fromFound == from \in 1..Len(groups)
        toFound == to \in 1..Len(groups)
        student == FindById(students, studentId)
        moved == FindById(groups[from], studentId)
        removed == [groups EXCEPT ![from] = WithoutId(@, studentId)]
    IN /\ groups' =
              IF from = 0 /\ to = 0 THEN groups
              ELSE IF to = 0
              THEN (IF fromFound THEN removed ELSE groups)
              ELSE IF from = 0
              THEN (IF toFound /\ student # 0
                    THEN [groups EXCEPT ![to] = Append(@, student)] ELSE groups)
              ELSE IF fromFound /\ toFound /\ moved # 0
              THEN [removed EXCEPT ![to] = Append(@, moved)]
              ELSE groups
       /\ \A g \in 1..Len(groups) : Len(groups'[g]) <= MaxGroupLen
       /\ lastOp' = Outcome("moveStudentToGroup", "ok")
       /\ chain' = NoChain
       /\ UNCHANGED <<heap, students, savedConditions, editingConditions, dialogOpen>>

\* ---- HomeComponent: drag and drop
\* availableStudents: the roster students whose id is in no group
AvailableStudents ==
    SelectSeq(students, LAMBDA o : IdOf(o) \notin Ids(Flatten(groups)))

\* the data of a drop list: 0 is the list of available students, g is group g
ContainerData(container) ==
    IF container = 0 THEN AvailableStudents ELSE groups[container]

\* moveItemInArray(array, fromIndex, toIndex)
MoveItemInArray(array, fromIndex, toIndex) ==
    LET item == array[fromIndex]
        rest == SubSeq(array, 1, fromIndex - 1) \o SubSeq(array, fromIndex + 1, Len(array))
    IN SubSeq(rest, 1, toIndex - 1) \o <<item>> \o SubSeq(rest, toIndex, Len(rest))

\* onDrop: the item at previousIndex of the list `from` dropped at currentIndex
\* of the list `to`; within one list the list is reordered in place (the list
\* of available students is a computed value, its order is no state), between
\* lists moveStudentToGroup moves the student
OnDrop(from, previousIndex, to, currentIndex) ==
    /\ from \in 0..Len(groups) /\ to \in 0..Len(groups)
    /\ previousIndex \in 1..Len(ContainerData(from))
    /\ IF from = to
       THEN /\ currentIndex \in 1..Len(ContainerData(to))
            /\ groups' = IF from = 0 THEN groups
                         ELSE [groups EXCEPT
                                  ![from] = MoveItemInArray(@, previousIndex, currentIndex)]
            /\ lastOp' = Outcome("onDrop", "ok")
            /\ chain' = NoChain
            /\ UNCHANGED <<heap, students, savedConditions, editingConditions,
                           dialogOpen>>
       ELSE /\ currentIndex = 1
            /\ MoveStudentToGroup(IdOf(ContainerData(from)[previousIndex]), from, to)

\* ---- GroupingConditionsService and the conditions dialog
\* {...condition, ...updates}
Merge(condition, updates) ==
    [f \in DOMAIN condition \cup DOMAIN updates |->
        IF f \in DOMAIN updates THEN updates[f] ELSE condition[f]]

\* updateEditingCondition(conditionId, updates): the editing state after it
UpdateEditingCondition(conditionId, updates) ==
    [i \in 1..Len(editingConditions) |->
        IF editingConditions[i].id = conditionId
        THEN Merge(editingConditions[i], updates) ELSE editingConditions[i]]

\* validateSameGroupInput: there is an error
ValidateSameGroupInput(input, maxStudentsPerGroupNow) ==
    \/ \E k \in 1..Len(input) :
           \/ ParseStudentNumbers(input[k]).thrown
           \/ Len(input[k]) = 0
           \/ Len(input[k]) > maxStudentsPerGroupNow
    \/ \E k, l \in 1..Len(input) : k < l /\ Range(input[k]) \cap Range(input[l]) # {}

\* validateDifferentGroupInput: there is an error
ValidateDifferentGroupInput(input, totalGroups) ==
    \/ \E k \in 1..Len(input) :
           \/ Len(Dedup(input[k])) = 0
           \/ Len(input[k]) # Len(Dedup(input[k]))
           \/ Len(Dedup(input[k])) > totalGroups
    \/ \E k, l \in 1..Len(input) : k < l /\ Range(input[k]) \cap Range(input[l]) # {}

\* the check for a logical conflict: a different-group segment with two or
\* more numbers that the same-group input lists
LogicalConflict(conditions) ==
    LET same == FindCondition(conditions, "same-group")
        different == FindCondition(conditions, "different-group")
        sameGroupStudentIds == Range(Flatten(same[1].input))
    IN /\ same # <<>> /\ different # <<>>
       /\ same[1].input # <<>> /\ different[1].input # <<>>
       /\ \E k \in 1..Len(different[1].input) :
              Len(SelectSeq(different[1].input[k],
                            LAMBDA id : id \in sameGroupStudentIds)) >= 2

\* validationErrors: the kinds of error the dialog shows for the editing state;
\* none at all while there is no group
ValidationErrors ==
    LET totalStudents == Len(students)
        groupCount == Len(groups)
        enabled == {i \in 1..Len(editingConditions) : editingConditions[i].enabled}
    IN IF groupCount = 0 THEN {}
       ELSE {"same-group" : i \in {j \in enabled :
                 /\ editingConditions[j].type = "same-group"
                 /\ editingConditions[j].input # <<>>
                 /\ ValidateSameGroupInput(editingConditions[j].input,
                                           CeilDiv(totalStudents, groupCount))}}
            \cup {"different-group" : i \in {j \in enabled :
                 /\ editingConditions[j].type = "different-group"
                 /\ editingConditions[j].input # <<>>
                 /\ ValidateDifferentGroupInput(editingConditions[j].input, groupCount)}}
            \cup {"conflict" : i \in {j \in {1} : LogicalConflict(editingConditions)}}

\* openConditionsDialog: the dialog component is created and its ngOnInit
\* calls startEditing
OpenConditionsDialog ==
    /\ ~dialogOpen
    /\ dialogOpen' = TRUE
    /\ editingConditions' = savedConditions
    /\ lastOp' = Outcome("openConditionsDialog", "ok")
    /\ chain' = NoChain
    /\ UNCHANGED <<heap, students, groups, savedConditions>>

ToggleCondition(conditionId, enabled) ==
    /\ dialogOpen
    /\ editingConditions' = UpdateEditingCondition(conditionId, [enabled |-> enabled])
    /\ lastOp' = Outcome("toggleCondition", "ok")
    /\ chain' = NoChain
    /\ UNCHANGED <<heap, students, groups, savedConditions, dialogOpen>>

UpdateConditionInput(conditionId, value) ==
    /\ dialogOpen
    /\ editingConditions' = UpdateEditingCondition(conditionId, [input |-> value])
    /\ lastOp' = Outcome("updateConditionInput", "ok")
    /\ chain' = NoChain
    /\ UNCHANGED <<heap, students, groups, savedConditions, dialogOpen>>

\* onSave: refused while validationErrors is not empty, else saveConditions
\* and the dialog closes
OnSave ==
    /\ dialogOpen
    /\ IF ValidationErrors # {}
       THEN /\ lastOp' = Outcome("onSave", "rejected")
            /\ UNCHANGED <<savedConditions, dialogOpen>>
       ELSE /\ savedConditions' = editingConditions
            /\ dialogOpen' = FALSE
            /\ lastOp' = Outcome("onSave", "ok")
    /\ chain' = NoChain
    /\ UNCHANGED <<heap, students, groups, editingConditions>>

\* onCancel: cancelEditing and the dialog closes
OnCancel ==
    /\ dialogOpen
    /\ editingConditions' = <<>>
    /\ dialogOpen' = FALSE
    /\ lastOp' = Outcome("onCancel", "ok")
    /\ chain' = NoChain
    /\ UNCHANGED <<heap, students, groups, savedConditions>>

\* ---- GroupingConditionsService called directly
HasBlockInputs(condition) == "blockInputs" \in DOMAIN condition

\* {...condition, blockInputs: newBlockInputs, input}: input is the non-blank
\* blocks joined
WithBlockInputs(condition, newBlockInputs) ==
    [condition EXCEPT !.blockInputs = newBlockInputs,
                      !.input = JoinBlocks(newBlockInputs)]

\* currentEditing.find((c) => c.id === conditionId): 0 when there is none
FindEditing(editing, conditionId) ==
    IF \E i \in 1..Len(editing) : editing[i].id = conditionId
    THEN CHOOSE i \in 1..Len(editing) :
             /\ editing[i].id = conditionId
             /\ \A j \in 1..(i - 1) : editing[j].id # conditionId
    ELSE 0

\* newBlockInputs[blockIndex] = value, blockIndex counted from 0: an element
\* replaced, or one appended at blockIndex = length
SetBlock(blockInputs, blockIndex, value) ==
    IF blockIndex + 1 \in 1..Len(blockInputs)
    THEN [blockInputs EXCEPT ![blockIndex + 1] = value]
    ELSE Append(blockInputs, value)

\* updateBlockInput that sets the editing state whatever the value
BlockInputAlwaysSet(editing, conditionId, blockIndex, value) ==
    [set |-> TRUE,
     editing |-> [i \in 1..Len(editing) |->
                     IF editing[i].id = conditionId /\ HasBlockInputs(editing[i])
                     THEN WithBlockInputs(editing[i],
                              SetBlock(editing[i].blockInputs, blockIndex, value))
                     ELSE editing[i]]]

\* updateBlockInput on the editing state: set tells whether
\* editingConditions.set was called, editing is the state after it
BlockInputUpdate(editing, conditionId, blockIndex, value) ==
    LET found == FindEditing(editing, conditionId)
        unchanged == /\ found # 0
                     /\ HasBlockInputs(editing[found])
                     /\ blockIndex + 1 \in 1..Len(editing[found].blockInputs)
                     /\ editing[found].blockInputs[blockIndex + 1] = value
    IN IF unchanged THEN [set |-> FALSE, editing |-> editing]
       ELSE [set |-> TRUE,
             editing |-> [i \in 1..Len(editing) |->
                             IF editing[i].id = conditionId /\ HasBlockInputs(editing[i])
                             THEN WithBlockInputs(editing[i],
                                      SetBlock(editing[i].blockInputs, blockIndex, value))
                             ELSE editing[i]]]

\* what a service operation leaves alone
ConditionsOnly == UNCHANGED <<heap, students, groups, dialogOpen, chain>>

\* cancelEditing that saves the editing state before it clears it
CancelEditingSaved ==
    /\ savedConditions' = editingConditions
    /\ editingConditions' = <<>>
    /\ lastOp' = Outcome("cancelEditing", "ok")
    /\ UNCHANGED <<heap, students, groups, dialogOpen, chain>>

StartEditing ==
    /\ editingConditions' = savedConditions
    /\ lastOp' = Outcome("startEditing", "ok")
    /\ UNCHANGED savedConditions
    /\ ConditionsOnly

UpdateEditing(conditionId, updates) ==
    /\ editingConditions' = UpdateEditingCondition(conditionId, updates)
    /\ lastOp' = Outcome("updateEditingCondition", "ok")
    /\ UNCHANGED savedConditions
    /\ ConditionsOnly

SaveConditions ==
    /\ savedConditions' = editingConditions
    /\ lastOp' = Outcome("saveConditions", "ok")
    /\ UNCHANGED editingConditions
    /\ ConditionsOnly

CancelEditing ==
    /\ editingConditions' = <<>>
    /\ lastOp' = Outcome("cancelEditing", "ok")
    /\ UNCHANGED savedConditions
    /\ ConditionsOnly

ResetConditions ==
    /\ savedConditions' = DefaultConditions
    /\ lastOp' = Outcome("resetConditions", "ok")
    /\ UNCHANGED editingConditions
    /\ ConditionsOnly

\* updateBlockInput(conditionId, blockIndex, value), blockIndex at most the
\* number of blocks; the outcome is "unchanged" when it returns before the set
UpdateBlockInput(conditionId, blockIndex, value) ==
    LET update == BlockInputUpdate(editingConditions, conditionId, blockIndex, value)
    IN /\ \A i \in 1..Len(editingConditions) :
              HasBlockInputs(editingConditions[i]) =>
                  /\ blockIndex <= Len(editingConditions[i].blockInputs)
                  /\ Len(update.editing[i].blockInputs) <= MaxBlocks
       /\ editingConditions' = update.editing
       /\ lastOp' = Outcome("updateBlockInput", IF update.set THEN "ok" ELSE "unchanged")
       /\ UNCHANGED savedConditions
       /\ ConditionsOnly

\* addBlock(conditionId), up to MaxBlocks blocks
AddBlock(conditionId) ==
    /\ \A i \in 1..Len(editingConditions) :
           (editingConditions[i].id = conditionId /\ HasBlockInputs(editingConditions[i]))
               => Len(editingConditions[i].blockInputs) < MaxBlocks
    /\ editingConditions' =
           [i \in 1..Len(editingConditions) |->
               IF editingConditions[i].id = conditionId /\ HasBlockInputs(editingConditions[i])
               THEN WithBlockInputs(editingConditions[i],
                        Append(editingConditions[i].blockInputs, <<>>))
               ELSE editingConditions[i]]
    /\ lastOp' = Outcome("addBlock", "ok")
    /\ UNCHANGED savedConditions
    /\ ConditionsOnly

\* removeBlock(conditionId, blockIndex): only while more than one block is left
RemoveBlock(conditionId, blockIndex) ==
    /\ editingConditions' =
           [i \in 1..Len(editingConditions) |->
               LET condition == editingConditions[i]
               IN IF /\ condition.id = conditionId
                     /\ HasBlockInputs(condition)
                     /\ Len(condition.blockInputs) > 1
                  THEN WithBlockInputs(condition,
                           [k \in 1..(Len(condition.blockInputs)
                                        - (IF blockIndex < Len(condition.blockInputs)
                                           THEN 1 ELSE 0)) |->
                               condition.blockInputs[IF k <= blockIndex THEN k ELSE k + 1]])
                  ELSE condition]
    /\ lastOp' = Outcome("removeBlock", "ok")
    /\ UNCHANGED savedConditions
    /\ ConditionsOnly

\* ---- HomeComponent
\* updatePreview: the preview list's ids; empty when the two inputs share a
\* number and the input modified last is known
PreviewStudents(maleInput, femaleInput, lastModifiedInput) ==
    LET maleNumbers == ParseNumberInput(maleInput)
        femaleNumbers == ParseNumberInput(femaleInput)
        duplicates == SelectSeq(maleNumbers, LAMBDA n : n \in Range(femaleNumbers))
    IN IF duplicates # <<>> /\ lastModifiedInput \in {"male", "female"}
       THEN <<>>
       ELSE maleNumbers \o femaleNumbers

\* initializeFromInputs: refused for an empty preview or fewer students than
\* groups, else initializeStudents and initializeGroups
InitializeFromInputs(maleInput, femaleInput, groupCount, lastModifiedInput) ==
    LET previewStudents == PreviewStudents(maleInput, femaleInput, lastModifiedInput)
        created == InitializeStudents(maleInput, femaleInput)
    IN /\ Len(created.heap) <= MaxObjects
       /\ IF Len(previewStudents) = 0 \/ Len(previewStudents) < groupCount
          THEN /\ lastOp' = Outcome("initializeFromInputs", "rejected")
               /\ UNCHANGED <<heap, students, groups>>
          ELSE /\ heap' = created.heap
               /\ students' = created.students
               /\ groups' = InitializeGroups(groupCount)
               /\ lastOp' = Outcome("initializeFromInputs", "ok")
       /\ chain' = NoChain
       /\ UNCHANGED <<savedConditions, editingConditions, dialogOpen>>

\* updateGroupCount: initializeGroups once there are groups
UpdateGroupCount(groupCount) ==
    /\ IF Len(groups) > 0 THEN groups' = InitializeGroups(groupCount)
       ELSE UNCHANGED groups
    /\ lastOp' = Outcome("updateGroupCount", "ok")
    /\ chain' = NoChain
    /\ UNCHANGED <<heap, students, savedConditions, editingConditions, dialogOpen>>

\* ------------------------------------------------------------ input choices
Genders == {"male", "female"}

\* same-group inputs: "", "1,2", "2,2;3;1,4"
SameGroupInputs ==
    {<<>>, <<<<1, 2>>>>, <<<<2, 2>>, <<3>>, <<1, 4>>>>}

\* different-group inputs: "", "1,2", "1,2,3", "1,1;2,3"
DifferentGroupInputs ==
    {<<>>, <<<<1, 2>>>>, <<<<1, 2, 3>>>>, <<<<1, 1>>, <<2, 3>>>>}

\* block inputs: three blank blocks; "1,2", "", "2-3"
BlockInputChoices ==
    {<<<<>>, <<>>, <<>>>>,
     <<<<<<1>>, <<2>>>>, <<>>, <<<<2, 3>>>>>>}

\* saved conditions: each condition disabled as constructed, or enabled with
\* one of the inputs above
ConditionChoices ==
    {<<block, same, different, gender>> :
        block \in {DefaultConditions[1]}
                      \cup {BlockCondition(TRUE, b) : b \in BlockInputChoices},
        same \in {DefaultConditions[2]}
                     \cup {Condition("same-group", TRUE, i) : i \in SameGroupInputs},
        different \in {DefaultConditions[3]}
                     \cup {Condition("different-group", TRUE, i) : i \in DifferentGroupInputs},
        gender \in {Condition("gender-ratio", e, <<>>) : e \in BOOLEAN}}

\* the heaps of a roster 1..k, k <= n, each student male or female
RosterHeaps(n) ==
    UNION {{[i \in 1..k |-> [id |-> i, gender |-> g[i], isLeader |-> FALSE]] :
               g \in [1..k -> Genders]} : k \in 0..n}

\* ----------------------------------------------------------- specifications
\* Allocation: a roster of at most MaxRoster students, 0..MaxGroups groups and
\* saved conditions, then performGrouping.
InitAlloc ==
    /\ heap \in RosterHeaps(MaxRoster)
    /\ students = [i \in 1..Len(heap) |-> i]
    /\ groups \in {EmptyGroups(n) : n \in 0..MaxGroups}
    /\ savedConditions \in ConditionChoices
    /\ editingConditions = <<>>
    /\ dialogOpen = FALSE
    /\ lastOp = Outcome("constructor", "ok")
    /\ chain = NoChain

NextAlloc == PerformGrouping

SpecAlloc == InitAlloc /\ [][NextAlloc]_vars

\* The deal: a roster of at most MaxId students and conditions that are all
\* disabled, or that make the chain place students, then performGrouping.
DealConditions ==
    {DefaultConditions,
     <<DefaultConditions[1], Condition("same-group", TRUE, <<<<1, 2>>>>),
       Condition("different-group", TRUE, <<<<1, 2, 3>>>>), DefaultConditions[4]>>,
     <<DefaultConditions[1], DefaultConditions[2], DefaultConditions[3],
       Condition("gender-ratio", TRUE, <<>>)>>}

InitDeal ==
    /\ heap \in RosterHeaps(MaxId)
    /\ students = [i \in 1..Len(heap) |-> i]
    /\ groups \in {EmptyGroups(n) : n \in 0..MaxGroups}
    /\ savedConditions \in DealConditions
    /\ editingConditions = <<>>
    /\ dialogOpen = FALSE
    /\ lastOp = Outcome("constructor", "ok")
    /\ chain = NoChain

NextDeal == PerformGrouping

SpecDeal == InitDeal /\ [][NextDeal]_vars

\* Leaders: a roster of at most MaxRoster students and 0..MaxLeaderGroups groups,
\* then performGrouping, toggleLeader, selectRandomLeaders and the drops of
\* the page, which call moveStudentToGroup, in any order.
InitLeader ==
    /\ heap \in RosterHeaps(MaxRoster)
    /\ students = [i \in 1..Len(heap) |-> i]
    /\ groups \in {EmptyGroups(n) : n \in 0..MaxLeaderGroups}
    /\ savedConditions = DefaultConditions
    /\ editingConditions = <<>>
    /\ dialogOpen = FALSE
    /\ lastOp = Outcome("constructor", "ok")
    /\ chain = NoChain

NextLeader ==
    \/ PerformGrouping
    \/ \E g \in 1..MaxLeaderGroups, studentId \in 1..MaxRoster : ToggleLeader(g, studentId)
    \/ SelectRandomLeaders
    \/ \E from \in 0..MaxLeaderGroups, previousIndex \in 1..MaxGroupLen,
          to \in 0..MaxLeaderGroups, currentIndex \in 1..MaxGroupLen :
           OnDrop(from, previousIndex, to, currentIndex)

SpecLeader == InitLeader /\ [][NextLeader]_vars

\* The application: the state the services are constructed with, then the
\* operations of the home page and of the conditions dialog.  The dialog is
\* modal: while it is open only its own operations run.
\* the texts typed into the number inputs: "", "1-2", "1-3" and "", "2"
MaleInputs == {<<>>, <<<<1, 2>>>>, <<<<1, 3>>>>}

FemaleInputs == {<<>>, <<<<2>>>>}

\* "3" to add, "1-3" to mark absent
AddInputs == {<<<<3>>>>}

AbsentInputs == {<<<<1, 3>>>>}

\* the students whose remove button is pressed
RemoveIds == {1, 2}

\* the input modified last: none yet, or the male input
LastModifiedInputs == {"null", "male"}

\* the texts typed into the dialog, for the different-group condition: "" and
\* "1,2,3"
DialogInputs ==
    [conditionId \in {"different-group"} |-> {<<>>, <<<<1, 2, 3>>>>}]

Init ==
    /\ heap = <<>>
    /\ students = <<>>
    /\ groups = <<>>
    /\ savedConditions = DefaultConditions
    /\ editingConditions = <<>>
    /\ dialogOpen = FALSE
    /\ lastOp = Outcome("constructor", "ok")
    /\ chain = NoChain

Next ==
    \/ /\ ~dialogOpen
       /\ \E maleInput \in MaleInputs, femaleInput \in FemaleInputs,
             groupCount \in 0..MaxGroups, lastModifiedInput \in LastModifiedInputs :
              InitializeFromInputs(maleInput, femaleInput, groupCount, lastModifiedInput)
    \/ ~dialogOpen /\ \E groupCount \in 0..MaxGroups : UpdateGroupCount(groupCount)
    \/ ~dialogOpen /\ \E input \in AddInputs, gender \in Genders : AddStudents(input, gender)
    \/ ~dialogOpen /\ \E studentId \in RemoveIds : RemoveStudent(studentId)
    \/ ~dialogOpen /\ \E input \in AbsentInputs : SetAbsentStudents(input)
    \/ ~dialogOpen /\ PerformGrouping
    \/ OpenConditionsDialog
    \/ \E conditionId \in DOMAIN DialogInputs, enabled \in BOOLEAN :
           ToggleCondition(conditionId, enabled)
    \/ \E conditionId \in DOMAIN DialogInputs :
           \E value \in DialogInputs[conditionId] : UpdateConditionInput(conditionId, value)
    \/ OnSave
    \/ OnCancel

Spec == Init /\ [][Next]_vars

\* The roster operations of StudentService called directly, in any order, from
\* the constructed state: initializeStudents, addStudents, removeStudent and
\* setAbsentStudents, each with any of the inputs below.
\* "", "1-2", "2", "3,1", "2-3"
RosterInputs == {<<>>, <<<<1, 2>>>>, <<<<2>>>>, <<<<3>>, <<1>>>>, <<<<2, 3>>>>}

NextRoster ==
    \/ \E maleInput \in RosterInputs, femaleInput \in RosterInputs :
           InitializeStudentsCall(maleInput, femaleInput)
    \/ \E input \in RosterInputs, gender \in Genders : AddStudents(input, gender)
    \/ \E studentId \in 1..MaxId : RemoveStudent(studentId)
    \/ \E input \in RosterInputs : SetAbsentStudents(input)

SpecRoster == Init /\ [][NextRoster]_vars

\* performGrouping and moveStudentToGroup called directly, in any order and
\* with any student id and any pair of "available" (0) and the group ids
NextMove ==
    \/ PerformGrouping
    \/ \E studentId \in 1..MaxRoster, from \in 0..MaxLeaderGroups,
          to \in 0..MaxLeaderGroups : MoveStudentToGroup(studentId, from, to)

SpecMove == InitLeader /\ [][NextMove]_vars

\* The operations of GroupingConditionsService called directly, in any order,
\* from the constructed state.
\* block values: "", "1"
BlockValues == {<<>>, <<<<1>>>>}

\* the condition ids given to the block operations: the block condition and
\* one without blockInputs
BlockOpIds == {"block-distribution", "gender-ratio"}

\* the updates given to updateEditingCondition, for the same-group condition:
\* enabled, disabled, input "1,2"
EditingUpdates == {[enabled |-> TRUE], [enabled |-> FALSE], [input |-> <<<<1, 2>>>>]}

NextConditions ==
    \/ StartEditing
    \/ \E updates \in EditingUpdates : UpdateEditing("same-group", updates)
    \/ SaveConditions
    \/ CancelEditing
    \/ ResetConditions
    \/ \E conditionId \in BlockOpIds, blockIndex \in 0..(MaxBlocks - 1),
          value \in BlockValues : UpdateBlockInput(conditionId, blockIndex, value)
    \/ \E conditionId \in BlockOpIds : AddBlock(conditionId)
    \/ \E conditionId \in BlockOpIds, blockIndex \in 0..(MaxBlocks - 1) :
           RemoveBlock(conditionId, blockIndex)

SpecConditions == Init /\ [][NextConditions]_vars

\* One handler: a roster 1..k, k <= MaxStageRoster (odd ids male, even ids
\* female), 0..MaxGroups groups and saved conditions drawn from the inputs
\* below; then a handler's handle on the context performGrouping builds.
\* same-group inputs: "", "1,2", "2,2;3;1,4", "1,1,2;3"
StageSameGroupInputs ==
    {<<>>, <<<<1, 2>>>>, <<<<2, 2>>, <<3>>, <<1, 4>>>>, <<<<1, 1, 2>>, <<3>>>>}

\* different-group inputs: "", "1,2", "1,1;2,3", "2,2;3"
StageDifferentGroupInputs ==
    {<<>>, <<<<1, 2>>>>, <<<<1, 1>>, <<2, 3>>>>, <<<<2, 2>>, <<3>>>>}

\* block inputs: "1-3", "4-5"; "1,2", "", "2-3"; three blank blocks
StageBlockInputs ==
    {<<<<<<1, 3>>>>, <<<<4, 5>>>>>>,
     <<<<<<1>>, <<2>>>>, <<>>, <<<<2, 3>>>>>>,
     <<<<>>, <<>>, <<>>>>}

StageConditions ==
    {<<block, same, different, gender>> :
        block \in {DefaultConditions[1]}
                      \cup {BlockCondition(TRUE, b) : b \in StageBlockInputs},
        same \in {DefaultConditions[2]}
                     \cup {Condition("same-group", TRUE, i) : i \in StageSameGroupInputs},
        different \in {DefaultConditions[3]}
                     \cup {Condition("different-group", TRUE, i) :
                              i \in StageDifferentGroupInputs},
        gender \in {Condition("gender-ratio", e, <<>>) : e \in BOOLEAN}}

StageHeaps ==
    {[i \in 1..k |-> [id |-> i,
                      gender |-> IF i % 2 = 1 THEN "male" ELSE "female",
                      isLeader |-> FALSE]] : k \in 0..MaxStageRoster}

InitStage ==
    /\ heap \in StageHeaps
    /\ students = [i \in 1..Len(heap) |-> i]
    /\ groups \in {EmptyGroups(n) : n \in 0..MaxGroups}
    /\ savedConditions \in StageConditions
    /\ editingConditions = <<>>
    /\ dialogOpen = FALSE
    /\ lastOp = Outcome("constructor", "ok")
    /\ chain = NoChain

NextStage ==
    \/ BlockDistributionStage
    \/ SameGroupStage
    \/ DifferentGroupStage

SpecStage == InitStage /\ [][NextStage]_vars

\* The chain from one of its handlers on, with clusters that the earlier
\* stages place together: a roster 1..4 or 1..5, 2..MaxGroups groups, the
\* block inputs ["1-3", "4-5"] and ["1-2"], the same-group inputs "1,2",
\* "1,2,3;3,4,5" and "4,5", the different-group inputs "1,2", "1,2,3",
\* "1,3;2,3" and "1,4".
ChainConditions ==
    {<<block, same, different, gender>> :
        block \in {DefaultConditions[1],
                   BlockCondition(TRUE, <<<<<<1, 3>>>>, <<<<4, 5>>>>>>),
                   BlockCondition(TRUE, <<<<<<1, 2>>>>>>)},
        same \in {DefaultConditions[2]}
                     \cup {Condition("same-group", TRUE, i) :
                              i \in {<<<<1, 2>>>>, <<<<1, 2, 3>>, <<3, 4, 5>>>>,
                                     <<<<4, 5>>>>}},
        different \in {DefaultConditions[3]}
                     \cup {Condition("different-group", TRUE, i) :
                              i \in {<<<<1, 2>>>>, <<<<1, 2, 3>>>>,
                                     <<<<1, 3>>, <<2, 3>>>>, <<<<1, 4>>>>}},
        gender \in {Condition("gender-ratio", e, <<>>) : e \in BOOLEAN}}

\* and a roster 1..MaxChainRoster in MaxGroups groups with "1,2,3;3,4,5" to
\* place together and "1,2,3" to separate
InitChain ==
    /\ \/ /\ heap \in {h \in StageHeaps : Len(h) >= MaxStageRoster - 1}
          /\ groups \in {EmptyGroups(n) : n \in 2..MaxGroups}
          /\ savedConditions \in ChainConditions
       \/ /\ heap = [i \in 1..MaxChainRoster |->
                        [id |-> i,
                         gender |-> IF i % 2 = 1 THEN "male" ELSE "female",
                         isLeader |-> FALSE]]
          /\ groups = EmptyGroups(MaxGroups)
          /\ savedConditions =
                 <<DefaultConditions[1],
                   Condition("same-group", TRUE, <<<<1, 2, 3>>, <<3, 4, 5>>>>),
                   Condition("different-group", TRUE, <<<<1, 2, 3>>>>),
                   DefaultConditions[4]>>
    /\ students = [i \in 1..Len(heap) |-> i]
    /\ editingConditions = <<>>
    /\ dialogOpen = FALSE
    /\ lastOp = Outcome("constructor", "ok")
    /\ chain = NoChain

SpecChain == InitChain /\ [][NextStage]_vars

\* The group chosen for a cluster: 2 groups that hold 0..MaxOccupancy students
\* each, and a cluster of 2..MaxClusterSize further students, the only
\* students in no group; then SameGroupHandler on these groups.
InitFit ==
    \E a, b \in 0..MaxOccupancy, r \in 2..MaxClusterSize :
        /\ heap = [i \in 1..(a + b + r) |->
                      [id |-> i,
                       gender |-> IF i % 2 = 1 THEN "male" ELSE "female",
                       isLeader |-> FALSE]]
        /\ students = [i \in 1..(a + b + r) |-> i]
        /\ groups = <<[i \in 1..a |-> i] \o <<>>, [i \in 1..b |-> a + i] \o <<>>>>
        /\ savedConditions =
               <<DefaultConditions[1],
                 Condition("same-group", TRUE, <<[i \in 1..r |-> a + b + i]>>),
                 DefaultConditions[3], DefaultConditions[4]>>
        /\ editingConditions = <<>>
        /\ dialogOpen = FALSE
        /\ lastOp = Outcome("constructor", "ok")
        /\ chain = NoChain

SpecFit == InitFit /\ [][SameGroupOnOccupiedGroups]_vars

\* ------------------------------------------------- properties of allocation
\* the ids of the stored groups, group by group, and of all of them
GroupIds(g) == [k \in 1..Len(groups[g]) |-> IdOf(groups[g][k])]

StoredIds == Flatten([g \in 1..Len(groups) |-> GroupIds(g)])

Grouped == lastOp.op = "performGrouping" /\ Len(groups) >= 1

RosterIds == {IdOf(students[i]) : i \in 1..Len(students)}

UniqueIds == Cardinality(RosterIds) = Len(students)

CountIn(list, P(_)) == Len(SelectSeq(list, P))

\* C1: after performGrouping, for a roster with unique ids and at least one
\* group, each roster student is in exactly one stored group and no stored
\* group holds a student that is not in the roster.
C1_Partition ==
    (Grouped /\ UniqueIds)
        => /\ \A id \in RosterIds : CountIn(StoredIds, LAMBDA x : x = id) = 1
           /\ \A g \in 1..Len(groups) : Range(groups[g]) \subseteq Range(students)

\* three students in two groups after a chain that placed students
C1_Witness ==
    /\ Grouped /\ UniqueIds /\ chain.handled
    /\ Len(students) = 3 /\ Len(groups) = 2
    /\ Range(StoredIds) = {1, 2, 3}

\* C2: after performGrouping with T students and G >= 1 groups, the group at
\* the 0-based index i holds floor(T/G) students and one more when i < T mod G,
\* so the largest and the smallest group differ by at most 1.
C2_GroupSizes ==
    Grouped
        => LET T == Len(students)
               G == Len(groups)
           IN /\ \A g \in 1..G :
                     Len(groups[g]) = (T \div G) + (IF g - 1 < T % G THEN 1 ELSE 0)
              /\ \A g, h \in 1..G : Len(groups[g]) - Len(groups[h]) <= 1

\* sizes 2 and 1 with both genders in the roster, so the females were dealt
\* around a group the males had filled
C2_Witness ==
    /\ Grouped /\ Len(students) = 3 /\ Len(groups) = 2
    /\ Len(groups[1]) = 2 /\ Len(groups[2]) = 1
    /\ Males(students) # <<>> /\ Females(students) # <<>>

\* C3: performGrouping applies forceEqualDistribution to the whole roster after
\* the chain returned, whether the chain handled the students or not: the size
\* and the number of males and females of every stored group are functions of
\* the roster and the group count alone.
C3_EqualizerAlways ==
    Grouped
        => LET T == Len(students)
               M == Len(Males(students))
               G == Len(groups)
               size(g) == (T \div G) + (IF g - 1 < T % G THEN 1 ELSE 0)
               males(g) == (M \div G) + (IF g - 1 < M % G THEN 1 ELSE 0)
           IN /\ chain.ran
              /\ \A g \in 1..G :
                     /\ Len(groups[g]) = size(g)
                     /\ Len(Males(groups[g])) = males(g)
                     /\ Len(Females(groups[g])) = size(g) - males(g)

\* the chain handled the students and a stored group has another size than
\* the group the chain produced
C3_Witness ==
    /\ Grouped /\ chain.handled
    /\ \E g \in 1..Len(groups) : Len(chain.groups[g]) # Len(groups[g])

\* the clusters of an input that are valid: two or more numbers, none twice
ValidClusters(input) ==
    {Range(input[k]) : k \in {j \in 1..Len(input) :
                                 Len(input[j]) >= 2 /\ ~HasDuplicates(input[j])}}

StoredGroupsOf(ids) == {g \in 1..Len(groups) : Range(GroupIds(g)) \cap ids # {}}

\* C4: with the same-group condition enabled, all members of a valid cluster
\* whose members are all in the roster (a cluster no larger than
\* ceil(students/groups)) are in the same stored group after performGrouping.
C4_SameGroupTogether ==
    (/\ lastOp = Outcome("performGrouping", "ok") /\ Len(groups) >= 1
     /\ savedConditions[2].enabled)
        => \A cluster \in ValidClusters(savedConditions[2].input) :
               (/\ cluster \subseteq RosterIds
                /\ Cardinality(cluster) <= CeilDiv(Len(students), Len(groups)))
                   => Cardinality(StoredGroupsOf(cluster)) = 1

\* C5: with the different-group condition enabled and two or more groups, the
\* members of a valid cluster (no larger than the group count) with at least
\* two members in the roster are in at least two stored groups after
\* performGrouping.
C5_DifferentGroupApart ==
    (/\ lastOp = Outcome("performGrouping", "ok") /\ Len(groups) >= 2
     /\ savedConditions[3].enabled)
        => \A cluster \in ValidClusters(savedConditions[3].input) :
               (/\ Cardinality(cluster \cap RosterIds) >= 2
                /\ Cardinality(cluster) <= Len(groups))
                   => Cardinality(StoredGroupsOf(cluster)) >= 2

\* C9: with one group or more, whatever the roster, the enabled conditions and
\* their inputs, the handler chain and performGrouping end without an error.
C9_NoError ==
    Grouped => (lastOp.outcome = "ok" /\ ~chain.thrown)

\* performGrouping ran with a different-group input that has a cluster with a
\* number twice, which the parser has to skip
C9_Witness ==
    /\ Grouped /\ lastOp.outcome = "ok"
    /\ Len(students) = 3 /\ Len(groups) = 2
    /\ savedConditions[3].enabled
    /\ \E k \in 1..Len(savedConditions[3].input) :
           HasDuplicates(savedConditions[3].input[k])

\* ------------------------------------------------------ properties of the deal
\* the ids of the roster's students of one gender, ascending
AscendingIds(gender) ==
    SortAsc([i \in 1..Len(SelectSeq(students, LAMBDA o : GenderOf(o) = gender)) |->
                IdOf(SelectSeq(students, LAMBDA o : GenderOf(o) = gender)[i])])

\* the size group g has to reach
DealTarget(g) ==
    (Len(students) \div Len(groups))
        + (IF g - 1 < Len(students) % Len(groups) THEN 1 ELSE 0)

\* the males in ascending order round-robin from the first group
MalesDealt ==
    [g \in 1..Len(groups) |->
        {AscendingIds("male")[j] : j \in {i \in 1..Len(AscendingIds("male")) :
                                            (i - 1) % Len(groups) = g - 1}}]

RECURSIVE FemalesDealt(_, _, _)
\* the females in ascending order round-robin from the first group, a group at
\* its target size skipped
FemalesDealt(dealt, k, g) ==
    IF k > Len(AscendingIds("female")) THEN dealt
    ELSE IF Cardinality(dealt[g]) < DealTarget(g)
    THEN FemalesDealt([dealt EXCEPT ![g] = @ \cup {AscendingIds("female")[k]}],
                      k + 1, (g % Len(groups)) + 1)
    ELSE FemalesDealt(dealt, k, (g % Len(groups)) + 1)

NoConditionEnabled == \A i \in 1..Len(savedConditions) : ~savedConditions[i].enabled

\* the chain handled the students and left a roster student in no group
PartialPlacement ==
    /\ chain.handled
    /\ \E i \in 1..Len(students) : IdOf(students[i]) \notin Ids(Flatten(chain.groups))

C6_PartialWitness ==
    /\ Grouped /\ lastOp.outcome = "ok" /\ chain.same /\ PartialPlacement
    /\ Len(students) >= 3

\* ------------------------------------------- properties of the application
\* C7: performGrouping with no group or with an empty roster is rejected with
\* a failure; it never completes silently.
C7_StructuralErrorsRejected ==
    (/\ lastOp.op = "performGrouping"
     /\ Len(groups) < 1 \/ Len(students) = 0)
        => lastOp.outcome = "error"

\* the configuration errors of the saved conditions against the roster and
\* the group count: a cluster with an id twice, a different-group cluster
\* larger than the group count, a same-group cluster larger than
\* ceil(students/groups)
ConfigurationError ==
    \/ /\ savedConditions[2].enabled
       /\ \E k \in 1..Len(savedConditions[2].input) :
              \/ HasDuplicates(savedConditions[2].input[k])
              \/ Len(savedConditions[2].input[k]) > CeilDiv(Len(students), Len(groups))
    \/ /\ savedConditions[3].enabled
       /\ \E k \in 1..Len(savedConditions[3].input) :
              \/ HasDuplicates(savedConditions[3].input[k])
              \/ Len(savedConditions[3].input[k]) > Len(groups)

\* C8: whatever the operations before it, performGrouping (with a group and a
\* student at least) does not run while the saved conditions have a
\* configuration error against the current roster and group count.
C8_NoAllocationWithConfigurationError ==
    (/\ lastOp.op = "performGrouping"
     /\ Len(groups) >= 1 /\ Len(students) >= 1)
        => ~ConfigurationError

\* ------------------------------------------------------ properties of leaders
\* C10: in every state reached by performGrouping, toggleLeader,
\* selectRandomLeaders and moveStudentToGroup, each group holds at most one
\* student with isLeader set.
C10_OneLeaderPerGroup ==
    \A g \in 1..Len(groups) :
        Cardinality({o \in Range(groups[g]) : heap[o].isLeader}) <= 1

C12_UniqueRosterIds ==
    \A i, j \in 1..Len(students) :
        i # j => IdOf(students[i]) # IdOf(students[j])

\* C13: addStudents whose parsed input holds an id of the roster raises an
\* error and leaves the roster as it was: no id of the input is added, the
\* ids that were no duplicates included.
C13_AddStudentsAtomic ==
    [][\A input \in RosterInputs, gender \in Genders :
           (/\ lastOp'.op = "addStudents"
            /\ AddStudents(input, gender)
            /\ Range(ParseNumberInput(input)) \cap Ids(students) # {})
               => /\ lastOp'.outcome = "error"
                  /\ students' = students
                  /\ heap' = heap]_vars

\* addStudents has raised its error on a roster of student 1 alone: the input
\* was "1-2" or "3,1", which also holds an id the roster does not have
C13_Witness ==
    /\ lastOp = Outcome("addStudents", "error")
    /\ Len(students) = 1
    /\ Ids(students) = {1}

\* ------------------------------------------- properties of the stored groups
\* C14: in every state reached by performGrouping and moveStudentToGroup
\* (between groups, from a group to "available", from "available" to a group)
\* a student id appears in at most one group.
C14_AtMostOneGroup ==
    \A g1, g2 \in 1..Len(groups) :
        g1 # g2 => Range(GroupIds(g1)) \cap Range(GroupIds(g2)) = {}

\* C15: in every state reached by performGrouping, removeStudent,
\* setAbsentStudents, addStudents and moveStudentToGroup, every student listed
\* in a group is a student of the roster.
C15_GroupedAreInRoster ==
    \A g \in 1..Len(groups) : Range(GroupIds(g)) \subseteq RosterIds

\* ------------------------------------------- properties of the conditions
\* C16: the saved conditions change only through saveConditions, which sets
\* them to a copy of the editing state, and resetConditions: startEditing,
\* updateEditingCondition, updateBlockInput, addBlock, removeBlock and
\* cancelEditing leave them as they were, so that edits followed by
\* cancelEditing leave getEnabledConditions as it was.
C16_SavedOnlyBySave ==
    [][/\ lastOp'.op \in {"startEditing", "updateEditingCondition", "updateBlockInput",
                          "addBlock", "removeBlock", "cancelEditing"}
              => /\ savedConditions' = savedConditions
                 /\ SelectSeq(savedConditions', LAMBDA c : c.enabled)
                        = SelectSeq(savedConditions, LAMBDA c : c.enabled)
       /\ lastOp'.op = "saveConditions" => savedConditions' = editingConditions
       /\ savedConditions' # savedConditions
              => lastOp'.op \in {"saveConditions", "resetConditions"}]_vars

\* an edit has acted on an editing state that differs from the saved
\* conditions, themselves saved earlier from an edited state
C16_Witness ==
    /\ lastOp.op \in {"updateEditingCondition", "updateBlockInput", "addBlock", "removeBlock"}
    /\ editingConditions # <<>>
    /\ editingConditions # savedConditions
    /\ savedConditions # DefaultConditions
    /\ \E i \in 1..Len(editingConditions) :
           editingConditions[i].enabled # savedConditions[i].enabled

\* C17: updateBlockInput called with the value the block has leaves the
\* editing state as it was and sets no new state; updateBlockInput applied
\* twice gives the editing state it gives applied once.
C17_UpdateBlockInputIdempotent ==
    [][\A conditionId \in BlockOpIds, blockIndex \in 0..(MaxBlocks - 1),
          value \in BlockValues :
           (lastOp'.op = "updateBlockInput"
                /\ UpdateBlockInput(conditionId, blockIndex, value)) =>
               LET found == FindEditing(editingConditions, conditionId)
               IN /\ (/\ found # 0
                      /\ HasBlockInputs(editingConditions[found])
                      /\ blockIndex < Len(editingConditions[found].blockInputs)
                      /\ editingConditions[found].blockInputs[blockIndex + 1] = value)
                         => /\ editingConditions' = editingConditions
                            /\ lastOp'.outcome = "unchanged"
                  /\ BlockInputUpdate(editingConditions', conditionId, blockIndex,
                                      value).editing = editingConditions']_vars

\* updateBlockInput has returned without setting a state, on a block that is
\* not blank
C17_Witness ==
    /\ lastOp = Outcome("updateBlockInput", "unchanged")
    /\ \E k \in 1..Len(editingConditions[1].blockInputs) :
           editingConditions[1].blockInputs[k] # <<>>

\* ------------------------------------------------ properties of one handler
\* the clusters of an input that repeat no id and have 2 ids at least
KeptClusters(input) ==
    SelectSeq(input, LAMBDA cluster : Len(cluster) >= 2 /\ ~HasDuplicates(cluster))

\* the handler's context when the dropped clusters are taken out of the
\* same-group and different-group inputs
ContextOfKeptClusters ==
    LET kept == [savedConditions EXCEPT ![2].input = KeptClusters(@),
                                        ![3].input = KeptClusters(@)]
    IN [StageContext EXCEPT !.conditions = SelectSeq(kept, LAMBDA c : c.enabled)]

\* the GroupingResult kept in chain is `result`
Returned(result) ==
    /\ chain.thrown = result.thrown
    /\ chain.handled = result.handled
    /\ chain.success = result.success
    /\ chain.groups = result.groups
    /\ chain.remainingStudents = result.remainingStudents

\* C18: when the same-group or different-group input is parsed for
\* allocation, every cluster that repeats an id and every cluster with fewer
\* than 2 ids is left out of the parsed list and the other clusters are kept
\* (in their order, each ascending); no student is placed on account of a
\* dropped cluster: the handler returns what it returns for the input without
\* the dropped clusters, and places nobody when every cluster is dropped.
C18_DroppedClusters ==
    /\ lastOp.op = "SameGroupHandler" /\ savedConditions[2].enabled =>
           LET input == savedConditions[2].input
               kept == KeptClusters(input)
           IN /\ ParseSameGroupInput(input) =
                     [thrown |-> FALSE, pairs |-> [k \in 1..Len(kept) |-> SortAsc(kept[k])]]
              /\ Returned(SameGroupHandle(ContextOfKeptClusters, lastOp.perm))
              /\ kept = <<>> => /\ ~chain.handled
                                /\ chain.groups = EmptyGroups(Len(groups))
                                /\ chain.remainingStudents = students
    /\ lastOp.op = "DifferentGroupHandler" /\ savedConditions[3].enabled =>
           LET input == savedConditions[3].input
               kept == KeptClusters(input)
           IN /\ ParseDifferentGroupInput(input) =
                     [thrown |-> FALSE, pairs |-> [k \in 1..Len(kept) |-> SortAsc(kept[k])]]
              /\ Returned(DifferentGroupHandle(ContextOfKeptClusters, lastOp.perm))
              /\ kept = <<>> => /\ ~chain.handled
                                /\ chain.groups = EmptyGroups(Len(groups))
                                /\ chain.remainingStudents = students

\* SameGroupHandler has placed the cluster 1,4 of "2,2;3;1,4", whose other two
\* clusters are dropped, and DifferentGroupHandler was not enabled
C18_Witness ==
    /\ lastOp.op = "SameGroupHandler"
    /\ savedConditions[2].enabled /\ ~savedConditions[3].enabled
    /\ savedConditions[2].input = <<<<2, 2>>, <<3>>, <<1, 4>>>>
    /\ Len(students) = 5 /\ Len(groups) = 3
    /\ chain.handled
    /\ \E g \in 1..Len(chain.groups) :
           {1, 4} \subseteq {IdOf(chain.groups[g][k]) : k \in 1..Len(chain.groups[g])}

\* DifferentGroupHandler was given "2,2;3", all of whose clusters are dropped
C18_WitnessAllDropped ==
    /\ lastOp.op = "DifferentGroupHandler"
    /\ savedConditions[3].enabled
    /\ savedConditions[3].input = <<<<2, 2>>, <<3>>>>
    /\ Len(students) = 5 /\ Len(groups) = 3

\* the blocks configured in the saved block condition
ConfiguredBlocks == ParseBlocks(savedConditions[1].blockInputs, 1)

\* the block students in the order the handler places them: block after
\* block in the configured order, each block in its shuffled order
BlockStudentsInOrder(perm) ==
    Flatten([b \in 1..Len(ConfiguredBlocks) |->
                Shuffle(SelectSeq(students,
                                  LAMBDA o : BlockIndexOf(ConfiguredBlocks, IdOf(o)) = b),
                        perm)])

\* BlockDistributionHandler has run with blocks configured and a group at least
BlockStageRan ==
    /\ lastOp.op = "BlockDistributionHandler"
    /\ savedConditions[1].enabled
    /\ ConfiguredBlocks # <<>>
    /\ Len(groups) >= 1

\* C19: in one BlockDistributionHandler invocation on G groups, the j-th
\* block student placed, counted from 0 across all blocks in their order, is
\* assigned to group j mod G: the group pointer is not reset between blocks.
\* The students are the first of their groups in the result unless
\* DifferentGroupHandler, which moves placed students, ran after.  Blocks
\* "1-3" and "4-5", 2 groups, no shuffling: 1,3,5 and 2,4.
C19_BlockPointerRunsOn ==
    BlockStageRan =>
        LET G == Len(groups)
            order == BlockStudentsInOrder(lastOp.perm)
            placed == DistributeBlockStudents(EmptyGroups(G), ConfiguredBlocks,
                                              students, lastOp.perm).groups
        IN /\ \A j \in 0..(Len(order) - 1) :
                  /\ Len(placed[(j % G) + 1]) > j \div G
                  /\ placed[(j % G) + 1][(j \div G) + 1] = order[j + 1]
           /\ Len(Flatten(placed)) = Len(order)
           /\ ~savedConditions[3].enabled =>
                  \A g \in 1..G :
                      /\ Len(chain.groups[g]) >= Len(placed[g])
                      /\ SubSeq(chain.groups[g], 1, Len(placed[g])) = placed[g]
           /\ (/\ savedConditions[1].blockInputs = <<<<<<1, 3>>>>, <<<<4, 5>>>>>>
               /\ Len(students) = 5 /\ G = 2 /\ lastOp.perm = students)
                  => [g \in 1..G |-> [k \in 1..Len(chain.groups[g]) |->
                                         IdOf(chain.groups[g][k])]]
                         = <<<<1, 3, 5>>, <<2, 4>>>>

\* blocks "1-3" and "4-5" dealt to 2 groups without shuffling
C19_Witness ==
    /\ BlockStageRan
    /\ savedConditions[1].blockInputs = <<<<<<1, 3>>>>, <<<<4, 5>>>>>>
    /\ Len(students) = 5 /\ Len(groups) = 2
    /\ lastOp.perm = students
    /\ Len(chain.groups[1]) = 3

\* C20: BlockDistributionHandler assigns no student who is in no configured
\* block to a group: in the result it returns such a student is still in
\* remainingStudents or was placed by a later stage, whatever the later
\* stages are (enabled, disabled, enabled with an empty input).
C20_NonBlockStudentsUntouched ==
    (BlockStageRan /\ ~chain.thrown) =>
        LET st == BlockDistributionPlace(StageContext, ConfiguredBlocks, lastOp.perm)
            later == SameGroupHandle(NextContext(StageContext, st), lastOp.perm)
        IN \A i \in 1..Len(students) :
               BlockIndexOf(ConfiguredBlocks, IdOf(students[i])) = 0 =>
                   \/ students[i] \in Range(chain.remainingStudents)
                   \/ /\ ~later.thrown
                      /\ later.handled
                      /\ \E g \in 1..Len(later.groups) :
                             students[i] \in Range(later.groups[g])


\* ------------------------------------------- properties of the chain's stages
\* the context SameGroupHandler.process received in the handler run kept in
\* chain, as a sequence: none when the handler was not invoked
SameGroupContexts ==
    IF lastOp.op = "SameGroupHandler" THEN <<StageContext>>
    ELSE IF lastOp.op # "BlockDistributionHandler" THEN <<>>
    ELSE IF ~savedConditions[1].enabled THEN <<StageContext>>
    ELSE IF ConfiguredBlocks = <<>> THEN <<>>
    ELSE LET st == BlockDistributionPlace(StageContext, ConfiguredBlocks, lastOp.perm)
         IN IF st.thrown \/ st.remaining = <<>> THEN <<>>
            ELSE <<NextContext(StageContext, st)>>

\* the members of the k-th cluster that are unplaced when SameGroupHandler
\* comes to it: in the remaining students and in no earlier cluster
UnplacedMembers(ctx, pairs, k) ==
    {id \in Range(pairs[k]) :
        /\ id \in Ids(ctx.remainingStudents)
        /\ \A j \in 1..(k - 1) : id \notin Range(pairs[j])}

\* SameGroupHandler processed clusters in the handler run kept in chain
SameGroupRan ==
    /\ SameGroupContexts # <<>>
    /\ savedConditions[2].enabled
    /\ ParseSameGroupInput(savedConditions[2].input).pairs # <<>>
    /\ Len(groups) >= 1

\* C21: for each cluster SameGroupHandler processes, the members of the
\* cluster that are unplaced at that moment are all put into one and the same
\* group, and they leave the remaining students; the handler puts no other
\* student into a group.  When DifferentGroupHandler is not enabled the
\* members are in one group of the returned result as well.
C21_ClusterInOneGroup ==
    SameGroupRan =>
        LET ctx == SameGroupContexts[1]
            pairs == ParseSameGroupInput(savedConditions[2].input).pairs
            placed == SameGroupPlace(ctx, pairs)
            G == Len(groups)
            added(g) == Ids(placed.groups[g]) \ Ids(ctx.groups[g])
        IN /\ ~placed.thrown
           /\ Len(placed.groups) = G
           /\ \A k \in 1..Len(pairs) :
                  LET members == UnplacedMembers(ctx, pairs, k)
                  IN members # {} =>
                         /\ \E g \in 1..G :
                                /\ members \subseteq added(g)
                                /\ \A h \in (1..G) \ {g} : members \cap added(h) = {}
                         /\ members \cap Ids(placed.remaining) = {}
                         /\ (~savedConditions[3].enabled /\ ~chain.thrown
                                 /\ Len(chain.groups) = G) =>
                                \E g \in 1..G : members \subseteq Ids(chain.groups[g])
           /\ \A g \in 1..G :
                  added(g) \subseteq
                      UNION {UnplacedMembers(ctx, pairs, k) : k \in 1..Len(pairs)}

\* "1,2,3;3,4,5" on 5 students and 3 groups: 1,2,3 are placed in one group and
\* then 4,5, the unplaced members of the second cluster, in another
C21_Witness ==
    /\ lastOp.op = "SameGroupHandler"
    /\ SameGroupRan
    /\ savedConditions[2].input = <<<<1, 2, 3>>, <<3, 4, 5>>>>
    /\ ~savedConditions[3].enabled
    /\ Len(students) = 5 /\ Len(groups) = 3
    /\ {1, 2, 3} \subseteq Ids(chain.groups[1])
    /\ {4, 5} \subseteq Ids(chain.groups[2])


\* C22: a student SameGroupHandler placed into a group is in that same group
\* in the result the chain returns: neither DifferentGroupHandler nor
\* GenderRatioHandler moves or removes it.
C22_SameGroupPlacementKept ==
    (SameGroupRan /\ ~chain.thrown /\ Len(chain.groups) = Len(groups)) =>
        LET ctx == SameGroupContexts[1]
            pairs == ParseSameGroupInput(savedConditions[2].input).pairs
            placed == SameGroupPlace(ctx, pairs)
        IN \A g \in 1..Len(groups) :
               Ids(placed.groups[g]) \ Ids(ctx.groups[g]) \subseteq Ids(chain.groups[g])


\* the context DifferentGroupHandler.process received in the handler run kept
\* in chain, as a sequence: none when the handler was not invoked
DifferentGroupContexts ==
    IF lastOp.op = "DifferentGroupHandler" THEN <<StageContext>>
    ELSE IF SameGroupContexts = <<>> THEN <<>>
    ELSE IF ~savedConditions[2].enabled THEN SameGroupContexts
    ELSE LET ctx == SameGroupContexts[1]
             pairs == ParseSameGroupInput(savedConditions[2].input).pairs
             st == SameGroupPlace(ctx, pairs)
         IN IF pairs = <<>> \/ st.thrown \/ st.remaining = <<>> THEN <<>>
            ELSE <<NextContext(ctx, st)>>

\* DifferentGroupHandler processed clusters in the handler run kept in chain
DifferentGroupRan ==
    /\ DifferentGroupContexts # <<>>
    /\ savedConditions[3].enabled
    /\ ParseDifferentGroupInput(savedConditions[3].input).pairs # <<>>
    /\ Len(groups) >= 1

\* the groups, remaining students and processed ids of DifferentGroupHandler
\* when the first k clusters have been assigned
AfterClusters(k) ==
    AssignPairs([groups |-> DifferentGroupContexts[1].groups,
                 remaining |-> DifferentGroupContexts[1].remainingStudents,
                 processed |-> {}, thrown |-> FALSE],
                SubSeq(ParseDifferentGroupInput(savedConditions[3].input).pairs, 1, k),
                1)

\* the groups of gs that hold a student with one of the ids
GroupsHolding(gs, ids) == {g \in 1..Len(gs) : ids \cap Ids(gs[g]) # {}}

\* C23: with 2 groups at least, when DifferentGroupHandler comes to a cluster
\* whose members are all in one single group, the first member of the cluster
\* stays in that group and afterwards the members are in 2 groups at least,
\* each in one.  Roster 1..4, 2 groups, cluster 1,2 placed together by
\* SameGroupHandler: the chain returns 1 and 2 in different groups.
C23_SeparationCorrection ==
    (DifferentGroupRan /\ Len(groups) >= 2) =>
        LET pairs == ParseDifferentGroupInput(savedConditions[3].input).pairs
        IN /\ \A k \in 1..Len(pairs) :
                  LET before == AfterClusters(k - 1)
                      after == AfterClusters(k)
                      members == Range(pairs[k])
                      shared == GroupsHolding(before.groups, members)
                  IN (/\ Cardinality(shared) = 1
                      /\ \A id \in members : id \in UNION {Ids(before.groups[g]) : g \in shared})
                         => /\ ~after.thrown
                            /\ \A g \in shared : pairs[k][1] \in Ids(after.groups[g])
                            /\ Cardinality(GroupsHolding(after.groups, members)) >= 2
                            /\ \A id \in members :
                                   Cardinality(GroupsHolding(after.groups, {id})) = 1
           /\ (/\ lastOp.op = "SameGroupHandler"
               /\ savedConditions[2].enabled /\ savedConditions[2].input = <<<<1, 2>>>>
               /\ savedConditions[3].input = <<<<1, 2>>>>
               /\ Len(students) = 4 /\ Len(groups) = 2)
                  => /\ ~chain.thrown
                     /\ Cardinality(GroupsHolding(chain.groups, {1, 2})) = 2

\* roster 1..4 in 2 groups, 1 and 2 placed together by SameGroupHandler and
\* the cluster 1,2 given to DifferentGroupHandler: 1 stayed, 2 is in group 2
C23_Witness ==
    /\ lastOp.op = "SameGroupHandler"
    /\ DifferentGroupRan
    /\ savedConditions[2].enabled /\ savedConditions[2].input = <<<<1, 2>>>>
    /\ savedConditions[3].input = <<<<1, 2>>>>
    /\ Len(students) = 4 /\ Len(groups) = 2
    /\ GroupsHolding(DifferentGroupContexts[1].groups, {1, 2}) = {1}
    /\ 1 \in Ids(chain.groups[1])
    /\ 2 \in Ids(chain.groups[2])


\* the members DifferentGroupHandler evicts when it comes to the k-th cluster:
\* those of the group the placed members share, after the first
EvictedMembers(k) ==
    LET pairs == ParseDifferentGroupInput(savedConditions[3].input).pairs
        before == AfterClusters(k - 1)
        shared == GroupsHolding(before.groups, Range(pairs[k]))
    IN IF Cardinality(shared) # 1 THEN <<>>
       ELSE Tail(SelectSeq(pairs[k],
                           LAMBDA id : id \in UNION {Ids(before.groups[g]) : g \in shared}))

\* C24: each member DifferentGroupHandler evicts from the group a cluster
\* shared is put into one group; into a group that holds no other member of
\* the cluster when there is such a group at that moment, and into a group
\* with the fewest students of all when every group holds a member.
C24_EvictedToUnusedGroup ==
    DifferentGroupRan =>
        LET pairs == ParseDifferentGroupInput(savedConditions[3].input).pairs
            G == Len(groups)
        IN \A k \in 1..Len(pairs) :
               LET before == AfterClusters(k - 1)
                   members == Range(pairs[k])
                   conflict == CHOOSE g \in GroupsHolding(before.groups, members) : TRUE
                   evicted == EvictedMembers(k)
                   pool == EvictFrom(before, conflict,
                                     <<pairs[k][1]>> \o evicted, 2)
                   reassigned(j) == RedistributeStudents(pool, SubSeq(evicted, 1, j),
                                                         conflict, 1)
               IN \A j \in 1..Len(evicted) :
                      LET prev == reassigned(j - 1).groups
                          now == reassigned(j).groups
                          free == (1..G) \ GroupsHolding(prev, members \ {evicted[j]})
                          target == GroupsHolding(now, {evicted[j]})
                      IN /\ Cardinality(target) = 1
                         /\ free # {} => target \subseteq free
                         /\ free = {} =>
                                \A g \in target : \A h \in 1..G : Len(prev[g]) <= Len(prev[h])


\* C25: in the result the chain returns, when the different-group condition
\* is enabled, no two members of a parsed cluster with at most as many
\* members as there are groups are in the same group, whatever
\* BlockDistributionHandler and SameGroupHandler placed before.
C25_ClustersApartInChainResult ==
    (/\ chain.ran /\ ~chain.thrown
     /\ savedConditions[3].enabled
     /\ Len(chain.groups) = Len(groups)) =>
        LET pairs == ParseDifferentGroupInput(savedConditions[3].input).pairs
        IN \A k \in 1..Len(pairs) :
               Len(pairs[k]) <= Len(groups) =>
                   \A g \in 1..Len(groups) :
                       Cardinality(Range(pairs[k]) \cap Ids(chain.groups[g])) <= 1


\* how many times the student object o is listed in the groups gs and in the
\* list remaining
Places(gs, remaining, o) ==
    Cardinality({<<g, k>> \in (1..Len(gs)) \X (1..MaxChainRoster) :
                    k <= Len(gs[g]) /\ gs[g][k] = o})
        + Cardinality({k \in 1..Len(remaining) : remaining[k] = o})

\* C26: with 1 group at least, in the result a stage handler returns every
\* roster student is in exactly one place: in one group, once, or in
\* remainingStudents, once; in no two places and not in none.
C26_ResultPartitionsRoster ==
    (chain.ran /\ ~chain.thrown /\ Len(groups) >= 1) =>
        \A i \in 1..Len(students) :
            Places(chain.groups, chain.remainingStudents, students[i]) = 1


\* the result kept in chain places the students as `result` does
SamePlacement(result) ==
    /\ chain.thrown = result.thrown
    /\ chain.handled = result.handled
    /\ chain.groups = result.groups
    /\ chain.remainingStudents = result.remainingStudents

\* C27: a stage whose constraint is disabled, or enabled with no valid block
\* or cluster configured, reports handled = false and the later stages run
\* on the groups and remaining students it received: the chain places the
\* students as the next handler does for the same context (a roster and a
\* group at least).
C27_DecliningStagePassesOn ==
    (Len(groups) >= 1 /\ Len(students) >= 1) =>
        /\ (/\ lastOp.op = "BlockDistributionHandler"
            /\ \/ ~savedConditions[1].enabled
               \/ ConfiguredBlocks = <<>>)
               => /\ ~BlockDistributionProcess(StageContext, lastOp.perm).handled
                  /\ SamePlacement(SameGroupHandle(StageContext, lastOp.perm))
        /\ (/\ lastOp.op = "SameGroupHandler"
            /\ \/ ~savedConditions[2].enabled
               \/ ParseSameGroupInput(savedConditions[2].input).pairs = <<>>)
               => /\ ~SameGroupProcess(StageContext, lastOp.perm).handled
                  /\ SamePlacement(DifferentGroupHandle(StageContext, lastOp.perm))
        /\ (/\ lastOp.op = "DifferentGroupHandler"
            /\ \/ ~savedConditions[3].enabled
               \/ ParseDifferentGroupInput(savedConditions[3].input).pairs = <<>>)
               => /\ ~DifferentGroupProcess(StageContext, lastOp.perm).handled
                  /\ SamePlacement(GenderRatioHandle(StageContext, lastOp.perm))


\* ------------------------------------------ properties of the stored groups
\* C28: in the groups performGrouping stores, the numbers of male students of
\* any two groups differ by 1 at most, and so do the numbers of female
\* students; a gender with as many students as there are groups, or more, has
\* a student in every group.
C28_GenderBalance ==
    (Grouped /\ lastOp.outcome = "ok") =>
        /\ \A g, h \in 1..Len(groups) :
               /\ Len(Males(groups[g])) <= Len(Males(groups[h])) + 1
               /\ Len(Females(groups[g])) <= Len(Females(groups[h])) + 1
        /\ Len(Males(students)) >= Len(groups) =>
               \A g \in 1..Len(groups) : Males(groups[g]) # <<>>
        /\ Len(Females(students)) >= Len(groups) =>
               \A g \in 1..Len(groups) : Females(groups[g]) # <<>>

\* 3 males and 1 female stored in 2 groups of 2: 2 males in one group, 1 male
\* and the female in the other
C28_Witness ==
    /\ Grouped /\ lastOp.outcome = "ok"
    /\ Len(Males(students)) = 3 /\ Len(Females(students)) = 1
    /\ Len(groups) = 2
    /\ Len(Males(groups[1])) = 2 /\ Len(Females(groups[1])) = 0
    /\ Len(Males(groups[2])) = 1 /\ Len(Females(groups[2])) = 1


\* ------------------------------------ properties of the conditions service
\* C29: in every state the operations of GroupingConditionsService reach, the
\* saved conditions are the four conditions block-distribution, same-group,
\* different-group and gender-ratio, each once.
C29_FourSavedConditions ==
    /\ Len(savedConditions) = 4
    /\ \A type \in {"block-distribution", "same-group", "different-group", "gender-ratio"} :
           Cardinality({i \in 1..Len(savedConditions) :
                           /\ savedConditions[i].id = type
                           /\ savedConditions[i].type = type}) = 1


\* ------------------------------------------- properties of the chosen group
\* C30: the group SameGroupHandler puts a cluster into is the lowest-index
\* group among those with the fewest students of all groups, whatever the
\* cluster's size and the groups' sizes: the cap of maxStudentsPerGroup
\* changes nothing, and the chosen group grows by the whole cluster, beyond
\* the cap when it comes to that.
C30_FewestGroupChosen ==
    (chain.ran /\ lastOp.op = "SameGroupHandler.process") =>
        LET r == Len(OccupiedContext.remainingStudents)
            target == FindAvailableGroup(groups, r)
        IN /\ \A h \in 1..Len(groups) :
                  \/ Len(groups[target]) < Len(groups[h])
                  \/ (Len(groups[target]) = Len(groups[h]) /\ target <= h)
           /\ ~chain.thrown
           /\ Len(chain.groups) = Len(groups)
           /\ \A h \in 1..Len(groups) :
                  chain.groups[h] =
                      IF h = target
                      THEN groups[h] \o OccupiedContext.remainingStudents
                      ELSE groups[h]

\* groups of 7 and 8 students and a cluster of 3: the cluster fits in no
\* group under the cap and the first group holds 10 students afterwards
C30_Witness ==
    /\ chain.ran /\ lastOp.op = "SameGroupHandler.process"
    /\ Len(groups[1]) = 7 /\ Len(groups[2]) = 8
    /\ Len(chain.groups[1]) = 10 /\ Len(chain.groups[2]) = 8

====
